---- MODULE Spec2Model ----
(***************************************************************************)
(* A model of the hybrid discrete-event / continuous-time simulation       *)
(* engine of financial_simulator: the Timings (time_generator.py), the     *)
(* ValueGenerators (value_generator.py), the ComposedEventBuilder          *)
(* (event.py), the AppreciationProcess (continuous_process.py) and the     *)
(* orchestration loop Simulation.run (sim.py).                             *)
(*                                                                         *)
(* Instants are whole days counted from an epoch (datetime values that     *)
(* differ by whole timedelta(days=...)); a calendar month lasts            *)
(* DaysPerMonth days.  Python floats are modelled by exact rationals       *)
(* <<n, d>> in lowest terms.  Python's None is the instant None == -1.     *)
(* The loops of the code that need not terminate are modelled one          *)
(* iteration per step, with the program position in pc.                    *)
(***************************************************************************)
EXTENDS Integers, Sequences, FiniteSets, TLC

\* ---------------------------------------------------------------- bounds
MaxT == 3
MaxInterval == 2
MaxBuilders == 2
MaxDraws == 2
MaxCalls == 3
DaysPerMonth == 2
MaxTerm == 3
MaxTrials == 2
MaxBuilds == 2
MaxGets == 1
MaxPosts == 2

None == -1

\* ------------------------------------------------------------- rationals
RECURSIVE Gcd(_, _)
Gcd(a, b) == IF b = 0 THEN a ELSE Gcd(b, a % b)

Abs(x) == IF x < 0 THEN -x ELSE x

\* the float n/d, in lowest terms with a positive denominator
Rat(n, d) ==
    LET g == Gcd(Abs(n), Abs(d))
        sg == IF d < 0 THEN -1 ELSE 1
    IN  <<(sg * n) \div g, (sg * d) \div g>>

RInt(k) == <<k, 1>>
RAdd(x, y) == Rat(x[1] * y[2] + y[1] * x[2], x[2] * y[2])
RSub(x, y) == Rat(x[1] * y[2] - y[1] * x[2], x[2] * y[2])
RMul(x, y) == Rat(x[1] * y[1], x[2] * y[2])
RDiv(x, y) == Rat(x[1] * y[2], x[2] * y[1])
RNeg(x) == <<-x[1], x[2]>>
RLe(x, y) == x[1] * y[2] <= y[1] * x[2]
RLt(x, y) == x[1] * y[2] < y[1] * x[2]

RECURSIVE RPow(_, _)
RPow(x, k) == IF k = 0 THEN RInt(1) ELSE RMul(x, RPow(x, k - 1))

RECURSIVE RSum(_)
RSum(vs) == IF vs = <<>> THEN RInt(0) ELSE RAdd(Head(vs), RSum(Tail(vs)))

\* --------------------------------------------------------------- helpers
EmptyMap == [k \in {} |-> 0]

\* {**a, **b}: the keys of both, b's value on a collision
Merge(a, b) == [k \in DOMAIN a \cup DOMAIN b |-> IF k \in DOMAIN b THEN b[k] ELSE a[k]]

\* nt.month of an instant
MonthOf(t) == ((t \div DaysPerMonth) % 12) + 1

SeqMin(q) == CHOOSE x \in {q[k] : k \in DOMAIN q} : \A y \in {q[k] : k \in DOMAIN q} : x <= y

\* --------------------------------------------------- Timing (time_generator.py)
\* A Timing object: kind is the class of the Timing (of the inner Timing when
\* seasonal is TRUE, the SeasonalTiming wrapping it allowing `months`);
\* draw is the stream of values np.random.randint hands out (read round and
\* round), of which one reset() takes n.
TimingFields(kind, seasonal, months, time, interval, start_time, rstart, rend, draw) ==
    [kind |-> kind, seasonal |-> seasonal, months |-> months, time |-> time,
     interval |-> interval, start_time |-> start_time,
     rstart |-> rstart, rend |-> rend, n |-> Len(draw), draw |-> draw,
     distribution |-> "uniform"]

\* the fields __init__ sets: fired, current_next, times and index; rpos is
\* how far the Timing has read into the stream of np.random
TimingInit ==
    [fired |-> FALSE, current_next |-> None, times |-> <<>>, index |-> 0, rpos |-> 0]

OneTimeReset(c, ts) == [ts EXCEPT !.fired = FALSE]

IntervalReset(c, ts) == [ts EXCEPT !.current_next = c.start_time]

\* np.random.randint(0, delta_days + 1, self.n): the next n values of the stream
RandomInts(c, ts) == [k \in 1..c.n |-> c.draw[((ts.rpos + k - 1) % Len(c.draw)) + 1]]

\* reset() draws only `if self.distribution == 'uniform'`
RandomReset(c, ts) ==
    IF c.distribution = "uniform"
    THEN LET random_days == SortSeq(RandomInts(c, ts), LAMBDA a, b : a < b)
         IN  [ts EXCEPT !.times = [k \in 1..c.n |-> c.rstart + random_days[k]],
                        !.index = 0,
                        !.rpos = IF c.n = 0 THEN @ ELSE (@ + c.n) % Len(c.draw)]
    ELSE [ts EXCEPT !.index = 0]

\* reset() of the Timing; SeasonalTiming.reset resets its inner Timing
TimingReset(c, ts) ==
    CASE c.kind = "OneTime" -> OneTimeReset(c, ts)
      [] c.kind = "Interval" -> IntervalReset(c, ts)
      [] c.kind = "Random" -> RandomReset(c, ts)

\* next_time returns [res, ts]: the instant returned (or None) and the
\* Timing's fields after the call.
OneTimeNextTime(c, ts, cur, e) ==
    [res |-> IF ~ts.fired /\ cur <= c.time /\ c.time <= e THEN c.time ELSE None,
     ts |-> ts]

\* while self.current_next < current: self.current_next += self.interval
RECURSIVE CatchUp(_, _, _)
CatchUp(cn, interval, cur) ==
    IF cn < cur THEN CatchUp(cn + interval, interval, cur) ELSE cn

\* IntervalTiming.next_time without the test against end
IntervalNextTimeNoEnd(c, ts, cur, e) ==
    LET first == IF ts.current_next = None
                 THEN (IF c.start_time = None THEN cur + c.interval ELSE c.start_time)
                 ELSE ts.current_next
        cn == CatchUp(first, c.interval, cur)
    IN  [res |-> cn, ts |-> [ts EXCEPT !.current_next = cn]]

IntervalNextTime(c, ts, cur, e) ==
    LET first == IF ts.current_next = None
                 THEN (IF c.start_time = None THEN cur + c.interval ELSE c.start_time)
                 ELSE ts.current_next
        cn == CatchUp(first, c.interval, cur)
    IN  [res |-> IF cn > e THEN None ELSE cn,
         ts |-> [ts EXCEPT !.current_next = cn]]

\* while self.index < len(self.times) and self.times[self.index] < current
RECURSIVE SkipPast(_, _, _)
SkipPast(times, index, cur) ==
    IF index < Len(times) /\ times[index + 1] < cur
    THEN SkipPast(times, index + 1, cur)
    ELSE index

RandomNextTime(c, ts, cur, e) ==
    LET ix == SkipPast(ts.times, ts.index, cur)
    IN  [res |-> IF ix < Len(ts.times) /\ ts.times[ix + 1] <= e
                 THEN ts.times[ix + 1] ELSE None,
         ts |-> [ts EXCEPT !.index = ix]]

\* next_time of a OneTime, Interval or Random Timing (the inner Timing of a
\* SeasonalTiming)
InnerNextTime(c, ts, cur, e) ==
    CASE c.kind = "OneTime" -> OneTimeNextTime(c, ts, cur, e)
      [] c.kind = "Interval" -> IntervalNextTime(c, ts, cur, e)
      [] c.kind = "Random" -> RandomNextTime(c, ts, cur, e)

\* the Timings a trial is built from
Draws == UNION {[1..k -> 0..1] : k \in 0..MaxDraws}

PlainTimings ==
    {TimingFields("OneTime", FALSE, {}, t, 1, None, 0, 0, <<>>) : t \in 0..MaxT}
    \cup {TimingFields("Interval", FALSE, {}, 0, iv, st, 0, 0, <<>>) :
             iv \in 1..MaxInterval, st \in {None} \cup 0..MaxT}
    \cup {TimingFields("Random", FALSE, {}, 0, 1, None, rs, rs + 1, d) :
             rs \in 0..(MaxT - 1), d \in Draws}

SeasonalTimings ==
    {[c EXCEPT !.seasonal = TRUE, !.months = ms] :
        c \in PlainTimings, ms \in {{1}, {2}}}

Timings == PlainTimings \cup SeasonalTimings

\* ------------------------------------------ ValueGenerator (value_generator.py)
\* A ValueGenerator object; tape is what its Distribution's sample() returns,
\* call after call.
ValueGenFields(kind, value, update_key, tape, principal, initial_rate, term_months, rate_key) ==
    [kind |-> kind, value |-> value, update_key |-> update_key, tape |-> tape,
     principal |-> principal, initial_rate |-> initial_rate,
     term_months |-> term_months, rate_key |-> rate_key,
     initial |-> RInt(0), growth |-> RInt(1)]

\* GrowingValue(initial, growth_rate); growth is (1 + growth_rate) ** (1 /
\* 365.25), its growth factor over one day
GrowingFields(initial, growth) ==
    [ValueGenFields("Growing", RInt(0), "r", <<RInt(0)>>, RInt(0), RInt(0), 0, "r")
       EXCEPT !.initial = initial, !.growth = growth]

\* the fields __init__ sets (balance, month, current, last_time), the number
\* of samples the Distribution has handed out, and the time arguments of the
\* get_value calls made since reset()
ValueGenInit(c) ==
    [balance |-> c.principal, month |-> 0, current |-> c.initial, last_time |-> None,
     drawn |-> 0, calls |-> <<>>]

ValueGenReset(c, vs) ==
    CASE c.kind = "VariableRateLoan" ->
           [vs EXCEPT !.balance = c.principal, !.month = 0, !.last_time = None,
                      !.calls = <<>>]
      [] c.kind = "Growing" ->
           [vs EXCEPT !.current = c.initial, !.last_time = None, !.calls = <<>>]
      [] OTHER -> [vs EXCEPT !.calls = <<>>]

\* self.dist.sample()
Sample(c, vs) == c.tape[(vs.drawn % Len(c.tape)) + 1]

FixedGetValue(c, vs, time, st) ==
    [value |-> c.value, meta |-> EmptyMap, vs |-> vs]

\* self.current *= (1 + self.growth_rate) ** delta_years, unless it is the
\* first call since reset()
GrowingGetValue(c, vs, time, st) ==
    LET days == time - vs.last_time
        current == IF vs.last_time = None THEN vs.current
                   ELSE IF days >= 0 THEN RMul(vs.current, RPow(c.growth, days))
                   ELSE RDiv(vs.current, RPow(c.growth, -days))
    IN  [value |-> current, meta |-> EmptyMap,
         vs |-> [vs EXCEPT !.current = current, !.last_time = time]]

DistributionGetValue(c, vs, time, st) ==
    [value |-> Sample(c, vs), meta |-> EmptyMap,
     vs |-> [vs EXCEPT !.drawn = vs.drawn + 1]]

RateChangeGetValue(c, vs, time, st) ==
    [value |-> RInt(0),
     meta |-> [k \in {"update_state"} |-> [u \in {c.update_key} |-> Sample(c, vs)]],
     vs |-> [vs EXCEPT !.drawn = vs.drawn + 1]]

\* get_value without the test of the balance in its first line
VariableRateLoanNoBalanceTest(c, vs, time, st) ==
    IF vs.month >= c.term_months
    THEN [value |-> RInt(0), meta |-> EmptyMap, vs |-> vs]
    ELSE
      LET current_rate == IF c.rate_key \in DOMAIN st THEN st[c.rate_key]
                          ELSE c.initial_rate
          monthly_rate == RDiv(current_rate, RInt(12))
          remaining_months == c.term_months - vs.month
          r == RPow(RAdd(RInt(1), monthly_rate), remaining_months)
          payment0 == IF monthly_rate = RInt(0)
                      THEN RDiv(vs.balance, RInt(remaining_months))
                      ELSE RDiv(RMul(RMul(vs.balance, monthly_rate), r),
                                RSub(r, RInt(1)))
          interest == RMul(vs.balance, monthly_rate)
          clamp == RLt(vs.balance, RSub(payment0, interest))
          principal_pay == IF clamp THEN vs.balance ELSE RSub(payment0, interest)
          payment == IF clamp THEN RAdd(interest, principal_pay) ELSE payment0
          balance == RSub(vs.balance, principal_pay)
      IN  [value |-> RNeg(payment),
           meta |-> [k \in {"interest", "principal", "rate", "remaining_balance"} |->
                       CASE k = "interest" -> interest
                         [] k = "principal" -> principal_pay
                         [] k = "rate" -> current_rate
                         [] k = "remaining_balance" -> balance],
           vs |-> [vs EXCEPT !.balance = balance, !.month = vs.month + 1,
                             !.last_time = time]]

\* get_value whose zero-rate payment divides by the whole term instead of
\* the remaining months
VariableRateLoanFlatPayment(c, vs, time, st) ==
    IF vs.month >= c.term_months \/ RLe(vs.balance, RInt(0))
    THEN [value |-> RInt(0), meta |-> EmptyMap, vs |-> vs]
    ELSE
      LET current_rate == IF c.rate_key \in DOMAIN st THEN st[c.rate_key]
                          ELSE c.initial_rate
          monthly_rate == RDiv(current_rate, RInt(12))
          remaining_months == c.term_months - vs.month
          r == RPow(RAdd(RInt(1), monthly_rate), remaining_months)
          payment0 == IF monthly_rate = RInt(0)
                      THEN RDiv(vs.balance, RInt(c.term_months))
                      ELSE RDiv(RMul(RMul(vs.balance, monthly_rate), r),
                                RSub(r, RInt(1)))
          interest == RMul(vs.balance, monthly_rate)
          clamp == RLt(vs.balance, RSub(payment0, interest))
          principal_pay == IF clamp THEN vs.balance ELSE RSub(payment0, interest)
          payment == IF clamp THEN RAdd(interest, principal_pay) ELSE payment0
          balance == RSub(vs.balance, principal_pay)
      IN  [value |-> RNeg(payment),
           meta |-> [k \in {"interest", "principal", "rate", "remaining_balance"} |->
                       CASE k = "interest" -> interest
                         [] k = "principal" -> principal_pay
                         [] k = "rate" -> current_rate
                         [] k = "remaining_balance" -> balance],
           vs |-> [vs EXCEPT !.balance = balance, !.month = vs.month + 1,
                             !.last_time = time]]

\* get_value that takes the whole payment, interest included, off the balance
VariableRateLoanPaymentOff(c, vs, time, st) ==
    IF vs.month >= c.term_months \/ RLe(vs.balance, RInt(0))
    THEN [value |-> RInt(0), meta |-> EmptyMap, vs |-> vs]
    ELSE
      LET current_rate == IF c.rate_key \in DOMAIN st THEN st[c.rate_key]
                          ELSE c.initial_rate
          monthly_rate == RDiv(current_rate, RInt(12))
          remaining_months == c.term_months - vs.month
          r == RPow(RAdd(RInt(1), monthly_rate), remaining_months)
          payment0 == IF monthly_rate = RInt(0)
                      THEN RDiv(vs.balance, RInt(remaining_months))
                      ELSE RDiv(RMul(RMul(vs.balance, monthly_rate), r),
                                RSub(r, RInt(1)))
          interest == RMul(vs.balance, monthly_rate)
          clamp == RLt(vs.balance, RSub(payment0, interest))
          principal_pay == IF clamp THEN vs.balance ELSE RSub(payment0, interest)
          payment == IF clamp THEN RAdd(interest, principal_pay) ELSE payment0
          balance == RSub(vs.balance, payment)
      IN  [value |-> RNeg(payment),
           meta |-> [k \in {"interest", "principal", "rate", "remaining_balance"} |->
                       CASE k = "interest" -> interest
                         [] k = "principal" -> principal_pay
                         [] k = "rate" -> current_rate
                         [] k = "remaining_balance" -> balance],
           vs |-> [vs EXCEPT !.balance = balance, !.month = vs.month + 1,
                             !.last_time = time]]

VariableRateLoanGetValue(c, vs, time, st) ==
    IF vs.month >= c.term_months \/ RLe(vs.balance, RInt(0))
    THEN [value |-> RInt(0), meta |-> EmptyMap, vs |-> vs]
    ELSE
      LET current_rate == IF c.rate_key \in DOMAIN st THEN st[c.rate_key]
                          ELSE c.initial_rate
          monthly_rate == RDiv(current_rate, RInt(12))
          remaining_months == c.term_months - vs.month
          r == RPow(RAdd(RInt(1), monthly_rate), remaining_months)
          payment0 == IF monthly_rate = RInt(0)
                      THEN RDiv(vs.balance, RInt(remaining_months))
                      ELSE RDiv(RMul(RMul(vs.balance, monthly_rate), r),
                                RSub(r, RInt(1)))
          interest == RMul(vs.balance, monthly_rate)
          clamp == RLt(vs.balance, RSub(payment0, interest))
          principal_pay == IF clamp THEN vs.balance ELSE RSub(payment0, interest)
          payment == IF clamp THEN RAdd(interest, principal_pay) ELSE payment0
          balance == RSub(vs.balance, principal_pay)
      IN  [value |-> RNeg(payment),
           meta |-> [k \in {"interest", "principal", "rate", "remaining_balance"} |->
                       CASE k = "interest" -> interest
                         [] k = "principal" -> principal_pay
                         [] k = "rate" -> current_rate
                         [] k = "remaining_balance" -> balance],
           vs |-> [vs EXCEPT !.balance = balance, !.month = vs.month + 1,
                             !.last_time = time]]

\* the call get_value(time, sim) that returned r, entered in the log of calls
LogCall(r, time) == [r EXCEPT !.vs.calls = Append(@, time)]

\* value_gen.get_value(time, sim): [value, meta, vs]
GetValue(c, vs, time, st) ==
    CASE c.kind = "Fixed" -> LogCall(FixedGetValue(c, vs, time, st), time)
      [] c.kind = "Growing" -> LogCall(GrowingGetValue(c, vs, time, st), time)
      [] c.kind = "Distribution" -> LogCall(DistributionGetValue(c, vs, time, st), time)
      [] c.kind = "RateChange" -> LogCall(RateChangeGetValue(c, vs, time, st), time)
      [] c.kind = "VariableRateLoan" -> LogCall(VariableRateLoanGetValue(c, vs, time, st), time)

ValueGens ==
    {ValueGenFields("Fixed", RInt(-2), "r", <<RInt(0)>>, RInt(0), RInt(0), 0, "r"),
     ValueGenFields("RateChange", RInt(0), "r", <<Rat(6, 100)>>, RInt(0), RInt(0), 0, "r"),
     ValueGenFields("VariableRateLoan", RInt(0), "r", <<RInt(0)>>, RInt(100), RInt(0), MaxT, "r")}

\* ------------------------------------- ContinuousProcess (continuous_process.py)
\* An AppreciationProcess: var is its state key; growth is (1 + rate) ** (1 /
\* 365.25), its growth factor over one day.
ProcessFields(growth, var) == [growth |-> growth, var |-> var]

\* advance that writes state[var] without the test of line 19, an absent
\* key counting as 1
AdvanceUnguarded(p, st, delta) ==
    [k \in DOMAIN st \cup {p.var} |->
       IF k = p.var
       THEN RMul(IF k \in DOMAIN st THEN st[k] ELSE RInt(1), RPow(p.growth, delta))
       ELSE st[k]]

\* advance(state, delta): state[var] *= (1 + rate) ** (delta.days / 365.25)
Advance(p, st, delta) ==
    IF p.var \in DOMAIN st
    THEN [st EXCEPT ![p.var] = RMul(st[p.var], RPow(p.growth, delta))]
    ELSE st

\* ------------------------------------------------------------------ state
VARIABLES
    name, params,       \* Simulation.name, Simulation.params
    start, end,         \* Simulation.start, Simulation.end
    builders,           \* Simulation.event_builders: [timing, value_gen, metadata]
    procs,              \* Simulation.continuous_processes
    tstate,             \* per builder: the fields of its Timing
    bnext,              \* per builder: ComposedEventBuilder.current_next
    vstate,             \* per builder: the fields of its ValueGenerator
    state,              \* Simulation.state
    state_history,      \* Simulation.state_history, in insertion order
    events,             \* Simulation.events
    pc,                 \* the position of the program
    current,            \* run(): current
    next_times,         \* run(): the list built at line 36
    next_time,          \* run(): next_time
    events_at_time,     \* run(): events_at_time
    i,                  \* the builder whose method is executing
    rs,                 \* the call site next_event_time returns to
    ncur,               \* next_event_time(current, sim): current
    nt,                 \* next_event_time: nt
    gtime,              \* generate_event(time, sim): time
    targ,               \* next_time(current, end): current
    tret,               \* the caller of next_time: the builder, or a direct call
    snt,                \* SeasonalTiming.next_time: nt
    advLog,             \* history: every advance() made by run(), in order
    treset,             \* history: reset() has been called on the Timing
    tlog,               \* history: the direct next_time calls since reset()
    wire,               \* what Simulation.to_dict() returned
    parsed,             \* what Simulation.from_dict(wire) returned
    pool,               \* build_simulations: the executor, its workers and futures
    jobs,               \* simulation_server.py: the module's dict jobs
    threads,            \* the threads simulate() has started, in order
    reply               \* what the last GET /results answered

cfg == <<name, params, start, end, builders, procs>>

\* what Simulation.run and the calls of a Timing leave alone
web == <<jobs, threads, reply>>

io == <<wire, parsed, pool, web>>

vars == <<name, params, start, end, builders, procs, tstate, bnext, vstate, state,
          state_history, events, pc, current, next_times, next_time, events_at_time,
          i, rs, ncur, nt, gtime, targ, tret, snt, advLog, treset, tlog,
          wire, parsed, pool, jobs, threads, reply>>

\* the server module just imported: no job, no thread, no request answered
NoWeb ==
    /\ jobs = <<>>
    /\ threads = <<>>
    /\ reply = [made |-> FALSE]

\* nothing serialized yet, no ensemble being built
NoIo ==
    /\ NoWeb
    /\ wire = [made |-> FALSE]
    /\ parsed = [made |-> FALSE]
    /\ pool = [phase |-> "none"]

\* the program state as one record, and the step that moves to the record
\* `next` (evaluated once)
Cur ==
    [tstate |-> tstate, bnext |-> bnext, vstate |-> vstate, state |-> state,
     state_history |-> state_history, events |-> events, pc |-> pc,
     current |-> current, next_times |-> next_times, next_time |-> next_time,
     events_at_time |-> events_at_time, i |-> i, rs |-> rs, ncur |-> ncur,
     nt |-> nt, gtime |-> gtime, targ |-> targ, tret |-> tret, snt |-> snt,
     advLog |-> advLog, treset |-> treset, tlog |-> tlog]

Becomes(next) ==
  \E s \in {next} :
    /\ tstate' = s.tstate /\ bnext' = s.bnext /\ vstate' = s.vstate
    /\ state' = s.state /\ state_history' = s.state_history /\ events' = s.events
    /\ pc' = s.pc /\ current' = s.current /\ next_times' = s.next_times
    /\ next_time' = s.next_time /\ events_at_time' = s.events_at_time
    /\ i' = s.i /\ rs' = s.rs /\ ncur' = s.ncur /\ nt' = s.nt /\ gtime' = s.gtime
    /\ targ' = s.targ /\ tret' = s.tret /\ snt' = s.snt
    /\ advLog' = s.advLog /\ treset' = s.treset /\ tlog' = s.tlog
    /\ UNCHANGED <<cfg, io>>

NB == Len(builders)

\* ------------------------------------------------ Simulation.run (sim.py)
\* the snapshot stored under the instant after t
HistoryPutLate(h, t, snap) == Append(h, [time |-> t + 1, state |-> snap])

\* self.state_history[t] = self.state.copy(): a dict keeps a key's first
\* position when the key is assigned again
HistoryPut(h, t, snap) ==
    IF \E k \in DOMAIN h : h[k].time = t
    THEN [k \in DOMAIN h |-> IF h[k].time = t THEN [time |-> t, state |-> snap] ELSE h[k]]
    ELSE Append(h, [time |-> t, state |-> snap])

\* F applied to the record x, with x evaluated once
On(x, F(_)) == CHOOSE r \in {F(v) : v \in {x}} : TRUE

\* the call b.next_event_time(cur, sim) made from `site`
CallNextEventTime(s, b, cur, site) ==
    [s EXCEPT !.pc = "next_event_time", !.i = b, !.ncur = cur, !.rs = site]

\* delta taken from the epoch instead of from current
TickDeltaFromEpoch(nxt, cur) == nxt

\* delta = next_time - current
TickDelta(nxt, cur) == nxt - cur

\* for proc in self.continuous_processes: proc.advance(self.state, delta)
RECURSIVE AdvanceAll(_, _, _)
AdvanceAll(st, k, delta) ==
    IF k > Len(procs) THEN st
    ELSE AdvanceAll(Advance(procs[k], st, delta), k + 1, delta)

\* lines 37-44, reached with the list of line 36 complete: leave the loop,
\* or choose next_time, advance the processes and start the loop of line 45
AfterQuery(s0) ==
    LET Body(s) ==
          LET cands == SelectSeq(s.next_times, LAMBDA t : t # None /\ t <= end)
          IN  IF cands = <<>> THEN [s EXCEPT !.pc = "done"]
              ELSE LET nxt == SeqMin(cands)
                       delta == TickDelta(nxt, s.current)
                   IN  CallNextEventTime(
                         [s EXCEPT !.next_time = nxt,
                                   !.state = AdvanceAll(s.state, 1, delta),
                                   !.advLog = @ \o [k \in 1..Len(procs) |->
                                                [proc |-> k, delta |-> delta, tick |-> nxt]],
                                   !.events_at_time = <<>>],
                         1, s.current, "gen")
    IN  On(s0, Body)

\* the top of the while loop: line 36
StartQuery(s0) ==
    LET Body(s) ==
          IF NB = 0 THEN AfterQuery([s EXCEPT !.next_times = <<>>])
          ELSE CallNextEventTime([s EXCEPT !.next_times = <<>>], 1, s.current, "query")
    IN  On(s0, Body)

\* lines 50-54, reached with the loop of line 45 complete
EndTick(s0) ==
    LET Body(s) ==
          LET total == RSum([k \in DOMAIN s.events_at_time |-> s.events_at_time[k].value])
              st == IF "cumulative_cash" \in DOMAIN s.state
                    THEN [s.state EXCEPT !["cumulative_cash"] = RAdd(@, total)]
                    ELSE s.state
          IN  StartQuery([s EXCEPT !.events = @ \o s.events_at_time,
                                   !.state = st,
                                   !.state_history = HistoryPut(@, s.next_time, st),
                                   !.current = s.next_time])
    IN  On(s0, Body)

\* the loop of line 45 moves to its next builder
NextBuilder(s0) ==
    LET Body(s) ==
          IF s.i < NB THEN CallNextEventTime(s, s.i + 1, s.current, "gen")
          ELSE EndTick(s)
    IN  On(s0, Body)

\* ------------------------------------------ ComposedEventBuilder (event.py)
\* generate_event whose get_value is called ahead of the test of line 75
EmitEager(s, v) ==
    LET b == s.i
        g == GetValue(builders[b].value_gen, s.vstate[b], s.gtime, s.state)
        meta == Merge(builders[b].metadata, g.meta)
        st == IF "update_state" \in DOMAIN g.meta
              THEN Merge(s.state, g.meta["update_state"])
              ELSE s.state
    IN  IF v # s.gtime THEN [s |-> [s EXCEPT !.vstate[b] = g.vs], event |-> <<>>]
        ELSE [s |-> [s EXCEPT !.vstate[b] = g.vs, !.state = st, !.bnext[b] = None],
              event |-> <<[time |-> s.gtime, value |-> g.value, metadata |-> meta,
                           builder |-> b]>>]

\* generate_event, lines 75-83, reached when its call of next_event_time
\* has returned v: the program state it leaves and the Event it returns
\* (<<>> for None)
Emit(s, v) ==
    IF v # s.gtime THEN [s |-> s, event |-> <<>>]
    ELSE LET b == s.i
             g == GetValue(builders[b].value_gen, s.vstate[b], s.gtime, s.state)
             meta == Merge(builders[b].metadata, g.meta)
             st == IF "update_state" \in DOMAIN g.meta
                   THEN Merge(s.state, g.meta["update_state"])
                   ELSE s.state
         IN  [s |-> [s EXCEPT !.vstate[b] = g.vs, !.state = st, !.bnext[b] = None],
              event |-> <<[time |-> s.gtime, value |-> g.value, metadata |-> meta,
                           builder |-> b]>>]

\* generate_event called at line 47 of run(); then lines 48-49
GenerateEvent(s0, v) ==
    LET Body(r) == NextBuilder([r.s EXCEPT !.events_at_time = @ \o r.event])
    IN  On(Emit(s0, v), Body)

\* what a call on a builder can change: its cached candidate, the fields of
\* its Timing and of its ValueGenerator, and sim.state
Snapshot(s) ==
    [bnext |-> s.bnext[1], ts |-> s.tstate[1], vs |-> s.vstate[1], state |-> s.state]

\* a direct call on the builder returns res (and the Events in event): the
\* open entry of the log is closed, the locals of the call are gone
Finish(s, res, event) ==
    [s EXCEPT !.pc = "builder",
              !.ncur = None, !.nt = None, !.gtime = None, !.targ = None,
              !.snt = None, !.rs = "direct",
              !.tlog[Len(s.tlog)] = [@ EXCEPT !.done = TRUE, !.res = res,
                                              !.event = event,
                                              !.asked = s.targ # None,
                                              !.after = Snapshot(s)]]

\* generate_event called directly
DirectGenerateEvent(s0, v) ==
    LET Body(r) == Finish(r.s, None, r.event)
    IN  On(Emit(s0, v), Body)

\* next_event_time returns v to its call site: line 36, line 46 (then the
\* call of generate_event at line 47), line 75, or a direct caller
Return(s0, v) ==
    LET Body(s) ==
          CASE s.rs = "query" ->
                 IF s.i < NB
                 THEN CallNextEventTime([s EXCEPT !.next_times = Append(@, v)],
                                        s.i + 1, s.current, "query")
                 ELSE AfterQuery([s EXCEPT !.next_times = Append(@, v)])
            [] s.rs = "gen" ->
                 IF v = s.next_time
                 THEN CallNextEventTime([s EXCEPT !.gtime = s.next_time],
                                        s.i, s.next_time, "generate_event")
                 ELSE NextBuilder(s)
            [] s.rs = "generate_event" -> GenerateEvent(s, v)
            [] s.rs = "direct" -> Finish(s, v, <<>>)
            [] s.rs = "direct_generate" -> DirectGenerateEvent(s, v)
    IN  On(s0, Body)

\* Timing.next_time returns v: to the builder's loop, or to a direct caller
TimingReturn(s, v) ==
    IF s.tret = "builder" THEN [s EXCEPT !.nt = v, !.pc = "loop_test"]
    ELSE [s EXCEPT !.tlog = Append(@, [cur |-> s.targ, res |-> v]), !.pc = "idle"]

\* lines 31-34: reset every builder, current = start, the first snapshot
RunStart ==
    /\ pc = "start"
    /\ Becomes(StartQuery(
         [Cur EXCEPT !.tstate = [b \in 1..NB |-> TimingReset(builders[b].timing, tstate[b])],
                     !.vstate = [b \in 1..NB |-> ValueGenReset(builders[b].value_gen, vstate[b])],
                     !.bnext = [b \in 1..NB |-> None],
                     !.treset = TRUE,
                     !.current = start,
                     !.state_history = HistoryPut(state_history, start, state)]))

\* next_event_time that asks the Timing at every call
NextEventTimeAlways ==
    /\ pc = "next_event_time"
    /\ Becomes([Cur EXCEPT !.targ = ncur, !.tret = "builder", !.pc = "next_time"])

\* next_event_time, line 67: is the cached candidate still ahead?
NextEventTime ==
    /\ pc = "next_event_time"
    /\ Becomes(IF bnext[i] = None \/ bnext[i] <= ncur
               THEN [Cur EXCEPT !.targ = ncur, !.tret = "builder", !.pc = "next_time"]
               ELSE Return(Cur, bnext[i]))

\* the call self.timing.next_time(targ, end): lines 68 and 70; of a
\* SeasonalTiming, line 86 of time_generator.py
TimingNextTime ==
    /\ pc = "next_time"
    /\ LET c == builders[i].timing
           r == InnerNextTime(c, tstate[i], targ, end)
           s == [Cur EXCEPT !.tstate[i] = r.ts]
       IN  Becomes(IF c.seasonal THEN [s EXCEPT !.snt = r.res, !.pc = "seasonal_test"]
                   ELSE TimingReturn(s, r.res))

\* SeasonalTiming.next_time, line 87: the test of its while loop
SeasonalTest ==
    /\ pc = "seasonal_test"
    /\ Becomes(IF snt # None /\ MonthOf(snt) \notin builders[i].timing.months
               THEN [Cur EXCEPT !.pc = "seasonal_next"]
               ELSE TimingReturn(Cur, snt))

\* SeasonalTiming.next_time, line 88: nt = self.inner.next_time(nt, end)
SeasonalNext ==
    /\ pc = "seasonal_next"
    /\ LET r == InnerNextTime(builders[i].timing, tstate[i], snt, end)
       IN  Becomes([Cur EXCEPT !.tstate[i] = r.ts, !.snt = r.res, !.pc = "seasonal_test"])

\* next_event_time whose while loop tests nt < current
LoopTestStrict ==
    /\ pc = "loop_test"
    /\ Becomes(IF nt # None /\ nt < ncur
               THEN [Cur EXCEPT !.targ = nt, !.pc = "next_time"]
               ELSE Return([Cur EXCEPT !.bnext[i] = nt], nt))

\* next_event_time, line 69: the test of its while loop; then lines 71-72
LoopTest ==
    /\ pc = "loop_test"
    /\ Becomes(IF nt # None /\ nt <= ncur
               THEN [Cur EXCEPT !.targ = nt, !.pc = "next_time"]
               ELSE Return([Cur EXCEPT !.bnext[i] = nt], nt))

\* ----------------------------------------------------- the Simulations built
\* the Timings of the builders of a run: every class, a SeasonalTiming around
\* an IntervalTiming
RunTimings ==
    {c \in PlainTimings :
        \/ c.kind = "OneTime"
        \/ c.kind = "Interval" /\ c.start_time \in {None, 1}
        \/ /\ c.kind = "Random" /\ c.rstart = 1
           /\ Len(c.draw) \in {0, MaxDraws}
           /\ \A j, k \in DOMAIN c.draw : j < k => c.draw[j] <= c.draw[k]}
    \cup {c \in SeasonalTimings : c.kind = "Interval" /\ c.start_time = None}

\* the value generators of a simulation's builders, by registration
\* position: all fixed, a rate change ahead of loans, a loan ahead of rate
\* changes
Roles ==
    LET gen(kind) == CHOOSE v \in ValueGens : v.kind = kind
    IN  {[b \in 1..MaxBuilders |-> gen("Fixed")],
         [b \in 1..MaxBuilders |-> IF b = 1 THEN gen("RateChange") ELSE gen("VariableRateLoan")],
         [b \in 1..MaxBuilders |-> IF b = 1 THEN gen("VariableRateLoan") ELSE gen("RateChange")]}

\* the processes registered and the initial sim.state
Worlds ==
    {<<<<>>, EmptyMap>>,
     <<<<ProcessFields(RInt(2), "property_value"), ProcessFields(Rat(3, 2), "land_value")>>,
       [k \in {"property_value", "cumulative_cash", "r"} |->
          CASE k = "property_value" -> RInt(8)
            [] k = "cumulative_cash" -> RInt(0)
            [] k = "r" -> Rat(3, 100)]>>}

Init ==
    /\ start \in 0..1
    /\ end \in (MaxT - 1)..MaxT
    /\ \E k \in 0..MaxBuilders, r \in Roles : \E ts \in [1..k -> RunTimings] :
         builders = [b \in 1..k |->
                       [timing |-> ts[b], value_gen |-> r[b], metadata |-> EmptyMap]]
    /\ \E w \in Worlds : procs = w[1] /\ state = w[2]
    /\ tstate = [b \in 1..NB |-> TimingInit]
    /\ bnext = [b \in 1..NB |-> None]
    /\ vstate = [b \in 1..NB |-> ValueGenInit(builders[b].value_gen)]
    /\ state_history = <<>>
    /\ events = <<>>
    /\ pc = "start"
    /\ current = None /\ next_times = <<>> /\ next_time = None
    /\ events_at_time = <<>> /\ i = 0 /\ rs = "query" /\ ncur = None /\ nt = None
    /\ gtime = None /\ targ = None /\ tret = "builder" /\ snt = None
    /\ advLog = <<>> /\ treset = FALSE /\ tlog = <<>>
    /\ name = <<"Sim", 0>> /\ params = EmptyMap /\ NoIo

Next ==
    \/ RunStart
    \/ NextEventTime
    \/ TimingNextTime
    \/ SeasonalTest
    \/ SeasonalNext
    \/ LoopTest

Spec == Init /\ [][Next]_vars

\* the runs whose progress is checked
FairInit ==
    /\ Init
    /\ start = 1 /\ end = MaxT /\ procs # <<>>
    /\ \A b \in 1..NB : builders[b].timing.kind # "Random"

\* run() is sequential code: it takes its next step whenever it has one
FairSpec == FairInit /\ [][Next]_vars /\ WF_vars(Next)

\* ------------------------------------------------- a Timing used on its own
\* timing.reset()
DirectReset ==
    /\ pc = "idle"
    /\ Becomes([Cur EXCEPT !.tstate[1] = TimingReset(builders[1].timing, tstate[1]),
                           !.treset = TRUE, !.tlog = <<>>])

\* the call timing.next_time(c, end), for any instant c <= end
DirectNextTime ==
    /\ pc = "idle"
    /\ Len(tlog) < MaxCalls
    /\ \E c \in 0..end :
         Becomes([Cur EXCEPT !.targ = c, !.tret = "direct", !.pc = "next_time"])

TimingInitial ==
    /\ start = 0
    /\ end \in 0..MaxT
    /\ builders \in {<<[timing |-> t, value_gen |-> v, metadata |-> EmptyMap]>> :
                        t \in Timings, v \in {w \in ValueGens : w.kind = "Fixed"}}
    /\ procs = <<>>
    /\ state = EmptyMap
    /\ tstate = <<TimingInit>>
    /\ bnext = <<None>>
    /\ vstate = <<ValueGenInit(builders[1].value_gen)>>
    /\ state_history = <<>>
    /\ events = <<>>
    /\ pc = "idle"
    /\ current = None /\ next_times = <<>> /\ next_time = None
    /\ events_at_time = <<>> /\ i = 1 /\ rs = "query" /\ ncur = None /\ nt = None
    /\ gtime = None /\ targ = None /\ tret = "direct" /\ snt = None
    /\ advLog = <<>> /\ treset = FALSE /\ tlog = <<>>
    /\ name = <<"Sim", 0>> /\ params = EmptyMap /\ NoIo

TimingNext ==
    \/ DirectReset
    \/ DirectNextTime
    \/ TimingNextTime
    \/ SeasonalTest
    \/ SeasonalNext

TimingSpec == TimingInitial /\ [][TimingNext]_vars

\* --------------------------------------- a VariableRateLoan used on its own
\* the rates a rate change may leave in sim.state: monthly rates of 0, 1/10,
\* 1/2 and -3 (their powers stay small as exact fractions)
Rates == {RInt(0), RInt(6), RInt(-36)}

Loans ==
    {ValueGenFields("VariableRateLoan", RInt(0), "r", <<RInt(0)>>, p, ir, n, "r") :
        p \in {RInt(0), RInt(100)}, ir \in {RInt(0), RInt(6), RInt(12)}, n \in 0..MaxTerm}

\* value_gen.reset()
LoanReset ==
    /\ pc = "loan"
    /\ Becomes([Cur EXCEPT !.vstate[1] = ValueGenReset(builders[1].value_gen, vstate[1]),
                           !.treset = TRUE, !.tlog = <<>>])

\* sim.state.update({rate_key: r}): what the event of a RateChange does
LoanSetRate ==
    /\ pc = "loan"
    /\ \E r \in Rates :
         Becomes([Cur EXCEPT !.state =
                    Merge(state, [k \in {builders[1].value_gen.rate_key} |-> r])])

\* the call value_gen.get_value(time, sim), one instant after the other; the
\* log keeps the loan's fields and sim.state as they were before the call
LoanGetValue ==
    /\ pc = "loan"
    /\ Len(tlog) < MaxTerm + 2
    /\ LET r == GetValue(builders[1].value_gen, vstate[1], Len(tlog), state)
       IN  Becomes([Cur EXCEPT !.vstate[1] = r.vs,
                               !.tlog = Append(@, [cur |-> Len(tlog), res |-> r,
                                                   before |-> vstate[1], st |-> state])])

LoanInitial ==
    /\ start = 0
    /\ end = MaxT
    /\ builders \in {<<[timing |-> TimingFields("OneTime", FALSE, {}, 0, 1, None, 0, 0, <<>>),
                        value_gen |-> v, metadata |-> EmptyMap]>> : v \in Loans}
    /\ procs = <<>>
    /\ state = EmptyMap
    /\ tstate = <<TimingInit>>
    /\ bnext = <<None>>
    /\ vstate = <<ValueGenInit(builders[1].value_gen)>>
    /\ state_history = <<>>
    /\ events = <<>>
    /\ pc = "loan"
    /\ current = None /\ next_times = <<>> /\ next_time = None
    /\ events_at_time = <<>> /\ i = 1 /\ rs = "query" /\ ncur = None /\ nt = None
    /\ gtime = None /\ targ = None /\ tret = "direct" /\ snt = None
    /\ advLog = <<>> /\ treset = FALSE /\ tlog = <<>>
    /\ name = <<"Sim", 0>> /\ params = EmptyMap /\ NoIo

\* VariableRateLoanValue(principal, initial_rate, term_months, rate_key) with
\* a negative term_months: the constructor takes any int
NegativeTermLoans ==
    {ValueGenFields("VariableRateLoan", RInt(0), "r", <<RInt(0)>>, p, ir, -n, "r") :
        p \in {RInt(0), RInt(100)}, ir \in {RInt(0), RInt(6), RInt(12)}, n \in 1..MaxTerm}

\* get_value raises: the division of line 99 is by r - 1 = 0 (line 97 divides
\* by remaining_months > 0)
LoanRaises(c, vs, st) ==
    /\ ~(vs.month >= c.term_months \/ RLe(vs.balance, RInt(0)))
    /\ LET current_rate == IF c.rate_key \in DOMAIN st THEN st[c.rate_key]
                           ELSE c.initial_rate
           monthly_rate == RDiv(current_rate, RInt(12))
       IN  /\ monthly_rate # RInt(0)
           /\ RPow(RAdd(RInt(1), monthly_rate), c.term_months - vs.month) = RInt(1)

NegativeTermInitial ==
    /\ start = 0
    /\ end = MaxT
    /\ builders \in {<<[timing |-> TimingFields("OneTime", FALSE, {}, 0, 1, None, 0, 0, <<>>),
                        value_gen |-> v, metadata |-> EmptyMap]>> : v \in NegativeTermLoans}
    /\ procs = <<>>
    /\ state = EmptyMap
    /\ tstate = <<TimingInit>>
    /\ bnext = <<None>>
    /\ vstate = <<ValueGenInit(builders[1].value_gen)>>
    /\ state_history = <<>>
    /\ events = <<>>
    /\ pc = "loan"
    /\ current = None /\ next_times = <<>> /\ next_time = None
    /\ events_at_time = <<>> /\ i = 1 /\ rs = "query" /\ ncur = None /\ nt = None
    /\ gtime = None /\ targ = None /\ tret = "direct" /\ snt = None
    /\ advLog = <<>> /\ treset = FALSE /\ tlog = <<>>
    /\ name = <<"Sim", 0>> /\ params = EmptyMap /\ NoIo

LoanNext ==
    \/ LoanReset
    \/ LoanSetRate
    \/ LoanGetValue

LoanSpec == LoanInitial /\ [][LoanNext]_vars

NegativeTermSpec == NegativeTermInitial /\ [][LoanNext]_vars

\* ----------------------------------- SimulationBuilder (sim_builder.py)
\* The random source np.random of a process is [seed, pos]: the stream it
\* reads and how far it has read; StreamValue is the value it hands out next.
StreamValue(rng) == (rng.seed + rng.pos) % 2

\* np.random.seed(k)
Seeded(k) == [seed |-> k, pos |-> 0]

\* the state of np.random a worker process starts with, when nothing seeds it
ParentStates == {Seeded(2), Seeded(3)}

\* A factory (with the run() of the Simulation it builds) is what becomes of
\* a trial for each sampled parameter: run() returns, an error is raised, or
\* run() never returns
Factories == [0..1 -> {"done", "raise", "hang"}]

\* _build_one that seeds the random source with base_seed for every trial
BuildOneSameSeed(f, base_seed, k, rng) ==
    LET seeded == IF base_seed # None THEN Seeded(base_seed) ELSE rng
        p == StreamValue(seeded)
        t == StreamValue([seeded EXCEPT !.pos = @ + 1])
    IN  [outcome |-> f[p],
         sim |-> [name |-> <<"Sim", k>>, params |-> [key \in {"p"} |-> p],
                  times |-> <<t>>, trial |-> k],
         rng |-> [seeded EXCEPT !.pos = @ + 2]]

\* _build_one that never seeds the random source
BuildOneUnseeded(f, base_seed, k, rng) ==
    LET p == StreamValue(rng)
        t == StreamValue([rng EXCEPT !.pos = @ + 1])
    IN  [outcome |-> f[p],
         sim |-> [name |-> <<"Sim", k>>, params |-> [key \in {"p"} |-> p],
                  times |-> <<t>>, trial |-> k],
         rng |-> [rng EXCEPT !.pos = @ + 2]]

\* _build_one(factory, param_distributions, base_seed, i) run by a worker
\* whose random source is rng: the seeding, the sampled params, the name, and
\* run() (whose RandomTiming.reset draws the times from the same source)
BuildOne(f, base_seed, k, rng) ==
    LET seeded == IF base_seed # None THEN Seeded(base_seed + k) ELSE rng
        p == StreamValue(seeded)
        t == StreamValue([seeded EXCEPT !.pos = @ + 1])
    IN  [outcome |-> f[p],
         sim |-> [name |-> <<"Sim", k>>, params |-> [key \in {"p"} |-> p],
                  times |-> <<t>>, trial |-> k],
         rng |-> [seeded EXCEPT !.pos = @ + 2]]

\* the future whose result list() takes next, in the order the trials finished
NextFinished(p) ==
    IF Len(p.finished) > p.fetched THEN p.finished[p.fetched + 1] + 1 ELSE p.fetched + 1

\* the future whose result list(executor.map(...)) takes next: map yields the
\* results in the order of range(num)
NextResult(p) == p.fetched + 1

\* build_simulations(num, seed), lines 25-27: a new executor whose workers
\* start from the parent's random source; map submits every trial
BuildSimulations ==
    /\ pool.phase = "idle"
    /\ Len(pool.built) < MaxBuilds
    /\ \E r \in ParentStates :
         pool' = [pool EXCEPT
                    !.phase = "map",
                    !.futures = [k \in 1..pool.num |-> [status |-> "queued"]],
                    !.workers = [w \in 1..2 |-> [rng |-> r, task |-> 0]],
                    !.assigned = [k \in 1..pool.num |-> 0],
                    !.finished = <<>>, !.fetched = 0, !.sims = <<>>]
    /\ UNCHANGED <<cfg, tstate, bnext, vstate, state, state_history, events, pc,
                   current, next_times, next_time, events_at_time, i, rs, ncur, nt,
                   gtime, targ, tret, snt, advLog, treset, tlog, wire, parsed, web>>

\* an idle worker takes the first trial of the queue
WorkerTake ==
    /\ pool.phase \in {"map", "failing"}
    /\ \E w \in 1..2 :
         /\ pool.workers[w].task = 0
         /\ \E k \in DOMAIN pool.futures :
              /\ pool.futures[k].status = "queued"
              /\ \A j \in 1..(k - 1) : pool.futures[j].status # "queued"
              /\ pool' = [pool EXCEPT !.futures[k] = [status |-> "running"],
                                      !.workers[w].task = k,
                                      !.assigned[k] = w]
    /\ UNCHANGED <<cfg, tstate, bnext, vstate, state, state_history, events, pc,
                   current, next_times, next_time, events_at_time, i, rs, ncur, nt,
                   gtime, targ, tret, snt, advLog, treset, tlog, wire, parsed, web>>

\* a worker's _build_one returns or raises (one whose run() never returns
\* keeps its worker for ever)
WorkerFinish ==
    /\ pool.phase \in {"map", "failing"}
    /\ \E w \in 1..2 :
         /\ pool.workers[w].task # 0
         /\ LET k == pool.workers[w].task
                r == BuildOne(pool.factory, pool.seed, k - 1, pool.workers[w].rng)
            IN  /\ r.outcome # "hang"
                /\ pool' = [pool EXCEPT
                              !.futures[k] = IF r.outcome = "done"
                                             THEN [status |-> "done", result |-> r.sim]
                                             ELSE [status |-> "failed"],
                              !.workers[w] = [rng |-> r.rng, task |-> 0],
                              !.finished = Append(@, k - 1)]
    /\ UNCHANGED <<cfg, tstate, bnext, vstate, state, state_history, events, pc,
                   current, next_times, next_time, events_at_time, i, rs, ncur, nt,
                   gtime, targ, tret, snt, advLog, treset, tlog, wire, parsed, web>>

\* list(...) takes the next result; the result of a trial that raised is
\* its exception, raised again in build_simulations, and the trials still in
\* the queue are cancelled
Collect ==
    /\ pool.phase = "map"
    /\ pool.fetched < pool.num
    /\ LET k == NextResult(pool)
       IN  \/ /\ pool.futures[k].status = "done"
              /\ pool' = [pool EXCEPT !.sims = Append(@, pool.futures[k].result),
                                      !.fetched = @ + 1]
           \/ /\ pool.futures[k].status = "failed"
              /\ pool' = [pool EXCEPT
                            !.phase = "failing",
                            !.cause = k - 1,
                            !.futures = [j \in DOMAIN @ |->
                                           IF @[j].status = "queued"
                                           THEN [status |-> "cancelled"] ELSE @[j]]]
    /\ UNCHANGED <<cfg, tstate, bnext, vstate, state, state_history, events, pc,
                   current, next_times, next_time, events_at_time, i, rs, ncur, nt,
                   gtime, targ, tret, snt, advLog, treset, tlog, wire, parsed, web>>

\* the exception leaves the with block once the running trials are over:
\* build_simulations raises it and returns no list
Raise ==
    /\ pool.phase = "failing"
    /\ \A w \in 1..2 : pool.workers[w].task = 0
    /\ pool' = [pool EXCEPT
                  !.phase = "idle",
                  !.built = Append(@, [ended |-> "raised", cause |-> pool.cause,
                                       sims |-> <<>>, finished |-> pool.finished,
                                       assigned |-> pool.assigned])]
    /\ UNCHANGED <<cfg, tstate, bnext, vstate, state, state_history, events, pc,
                   current, next_times, next_time, events_at_time, i, rs, ncur, nt,
                   gtime, targ, tret, snt, advLog, treset, tlog, wire, parsed, web>>

\* line 28: every result has been taken, return sims
ReturnSims ==
    /\ pool.phase = "map"
    /\ pool.fetched = pool.num
    /\ pool' = [pool EXCEPT
                  !.phase = "idle",
                  !.built = Append(@, [ended |-> "returned", cause |-> None,
                                       sims |-> pool.sims, finished |-> pool.finished,
                                       assigned |-> pool.assigned])]
    /\ UNCHANGED <<cfg, tstate, bnext, vstate, state, state_history, events, pc,
                   current, next_times, next_time, events_at_time, i, rs, ncur, nt,
                   gtime, targ, tret, snt, advLog, treset, tlog, wire, parsed, web>>

\* a SimulationBuilder and the arguments its build_simulations is called
\* with, each time the same
EnsembleInitial ==
    /\ start = 0
    /\ end = MaxT
    /\ builders = <<>>
    /\ procs = <<>>
    /\ state = EmptyMap
    /\ tstate = <<>>
    /\ bnext = <<>>
    /\ vstate = <<>>
    /\ state_history = <<>>
    /\ events = <<>>
    /\ pc = "ensemble"
    /\ current = None /\ next_times = <<>> /\ next_time = None
    /\ events_at_time = <<>> /\ i = 0 /\ rs = "query" /\ ncur = None /\ nt = None
    /\ gtime = None /\ targ = None /\ tret = "direct" /\ snt = None
    /\ advLog = <<>> /\ treset = FALSE /\ tlog = <<>>
    /\ name = <<"Sim", 0>> /\ params = EmptyMap
    /\ wire = [made |-> FALSE]
    /\ parsed = [made |-> FALSE]
    /\ NoWeb
    /\ \E n \in 0..MaxTrials, sd \in {None, 0, 1}, f \in Factories :
         pool = [phase |-> "idle", num |-> n, seed |-> sd, factory |-> f,
                 futures |-> <<>>, workers |-> <<>>, assigned |-> <<>>,
                 finished |-> <<>>, fetched |-> 0, sims |-> <<>>, cause |-> None,
                 built |-> <<>>]

EnsembleNext ==
    \/ BuildSimulations
    \/ WorkerTake
    \/ WorkerFinish
    \/ Collect
    \/ Raise
    \/ ReturnSims

EnsembleSpec == EnsembleInitial /\ [][EnsembleNext]_vars

\* ------------------------------ Simulation.to_dict / from_dict (sim.py)
\* The values a param may have: a float, a datetime, a str (the sequence of
\* its characters); isinstance(v, T) is the test of the field it has.
Float(q) == [float |-> q]
Datetime(t) == [datetime |-> t]
Str(chars) == [str |-> chars]

Digits == <<"0", "1", "2", "3", "4", "5", "6", "7", "8", "9">>

\* datetime.isoformat(): year, month and day (one digit each on the model's
\* calendar), with '-' between them
IsoFormat(t) ==
    <<Digits[(t \div (12 * DaysPerMonth)) + 1], "-", Digits[MonthOf(t) + 1], "-",
      Digits[(t % DaysPerMonth) + 2]>>

DigitOf(ch) == CHOOSE k \in 0..9 : Digits[k + 1] = ch

\* what datetime.fromisoformat accepts; anything else raises ValueError
IsIsoFormat(chars) ==
    /\ Len(chars) = 5
    /\ chars[2] = "-" /\ chars[4] = "-"
    /\ \A k \in {1, 3, 5} : \E n \in 1..10 : Digits[n] = chars[k]
    /\ DigitOf(chars[3]) \in 1..9
    /\ DigitOf(chars[5]) \in 1..DaysPerMonth

\* datetime.fromisoformat(chars)
FromIsoFormat(chars) ==
    DigitOf(chars[1]) * 12 * DaysPerMonth + (DigitOf(chars[3]) - 1) * DaysPerMonth
      + (DigitOf(chars[5]) - 1)

\* Event.to_dict: asdict(self), the time as its isoformat
EventToDict(e) == [e EXCEPT !.time = IsoFormat(e.time)]

\* Event.from_dict
EventFromDict(d) == [d EXCEPT !.time = FromIsoFormat(d.time)]

\* the Simulation the model's variables hold
ThisSimulation ==
    [name |-> name, start |-> start, end |-> end, params |-> params,
     events |-> events, state |-> state, state_history |-> state_history]

\* Simulation.to_dict
SimToDict(x) ==
    [name |-> x.name,
     start |-> IsoFormat(x.start),
     end |-> IsoFormat(x.end),
     params |-> [k \in DOMAIN x.params |->
                   IF "datetime" \in DOMAIN x.params[k]
                   THEN Str(IsoFormat(x.params[k].datetime)) ELSE x.params[k]],
     events |-> [k \in DOMAIN x.events |-> EventToDict(x.events[k])],
     state |-> x.state,
     state_history |-> [k \in DOMAIN x.state_history |->
                          [time |-> IsoFormat(x.state_history[k].time),
                           state |-> x.state_history[k].state]]]

\* line 71: a param that is a str with a '-' in it is read as a datetime
LooksLikeDate(v) == "str" \in DOMAIN v /\ \E k \in DOMAIN v.str : v.str[k] = "-"

\* Simulation.from_dict: the Simulation, or the ValueError of fromisoformat
SimFromDict(d) ==
    IF \E k \in DOMAIN d.params : LooksLikeDate(d.params[k]) /\ ~IsIsoFormat(d.params[k].str)
    THEN [made |-> TRUE, error |-> TRUE]
    ELSE [made |-> TRUE, error |-> FALSE,
          sim |-> [name |-> d.name,
                   start |-> FromIsoFormat(d.start),
                   end |-> FromIsoFormat(d.end),
                   params |-> [k \in DOMAIN d.params |->
                                 IF LooksLikeDate(d.params[k])
                                 THEN Datetime(FromIsoFormat(d.params[k].str))
                                 ELSE d.params[k]],
                   events |-> [k \in DOMAIN d.events |-> EventFromDict(d.events[k])],
                   state |-> d.state,
                   state_history |-> [k \in DOMAIN d.state_history |->
                                        [time |-> FromIsoFormat(d.state_history[k].time),
                                         state |-> d.state_history[k].state]]]]

\* x.to_dict()
ToDict ==
    /\ pc = "done"
    /\ ~wire.made
    /\ wire' = [made |-> TRUE, d |-> SimToDict(ThisSimulation)]
    /\ UNCHANGED <<cfg, tstate, bnext, vstate, state, state_history, events, pc,
                   current, next_times, next_time, events_at_time, i, rs, ncur, nt,
                   gtime, targ, tret, snt, advLog, treset, tlog, parsed, pool, web>>

\* Simulation.from_dict(d)
FromDict ==
    /\ pc = "done"
    /\ wire.made /\ ~parsed.made
    /\ parsed' = SimFromDict(wire.d)
    /\ UNCHANGED <<cfg, tstate, bnext, vstate, state, state_history, events, pc,
                   current, next_times, next_time, events_at_time, i, rs, ncur, nt,
                   gtime, targ, tret, snt, advLog, treset, tlog, wire, pool, web>>

\* the values of the params of a Simulation
ParamValues ==
    {Float(Rat(1, 2)), Float(RInt(-3)), Datetime(0), Datetime(MaxT),
     Str(<<"l", "o", "w">>), Str(<<"a", "-", "b">>), Str(IsoFormat(1))}

\* the events a Simulation was given when it was made
GivenEvents ==
    {[time |-> t, value |-> RInt(-5), metadata |-> m, builder |-> 1] :
       t \in 0..MaxT,
       m \in {EmptyMap, [k \in {"update_state"} |-> [u \in {"r"} |-> Rat(1, 10)]]}}

\* a Simulation without builders that run() has completed: run() has put
\* the snapshot of start into its state_history and left its events alone
RoundTripInitial ==
    /\ start \in 0..1
    /\ end = MaxT
    /\ builders = <<>>
    /\ procs = <<>>
    /\ state \in {EmptyMap, [k \in {"cumulative_cash"} |-> RInt(7)]}
    /\ tstate = <<>>
    /\ bnext = <<>>
    /\ vstate = <<>>
    /\ state_history = <<[time |-> start, state |-> state]>>
    /\ events \in {<<>>} \cup {<<e>> : e \in {g \in GivenEvents : g.time >= start}}
    /\ pc = "done"
    /\ current = start /\ next_times = <<>> /\ next_time = None
    /\ events_at_time = <<>> /\ i = 0 /\ rs = "query" /\ ncur = None /\ nt = None
    /\ gtime = None /\ targ = None /\ tret = "builder" /\ snt = None
    /\ advLog = <<>> /\ treset = TRUE /\ tlog = <<>>
    /\ name \in {<<"Sim", 0>>, <<"Sim", 1>>}
    /\ params \in {EmptyMap} \cup [{"p"} -> ParamValues]
    /\ NoIo

RoundTripNext ==
    \/ ToDict
    \/ FromDict

RoundTripSpec == RoundTripInitial /\ [][RoundTripNext]_vars

\* ------------------------------------- reset() once and reset() twice
\* Two copies of one Timing and of one ValueGenerator, built alike and used
\* alike: copy 1 is reset once, copy 2 twice, from the same state of np.random.
ResetBoth ==
    /\ pc = "fresh"
    /\ LET c == builders[1].timing
           v == builders[1].value_gen
       IN  Becomes([Cur EXCEPT
                      !.tstate = <<TimingReset(c, tstate[1]),
                                   TimingReset(c, TimingReset(c, tstate[2]))>>,
                      !.vstate = <<ValueGenReset(v, vstate[1]),
                                   ValueGenReset(v, ValueGenReset(v, vstate[2]))>>,
                      !.treset = TRUE, !.tlog = <<>>, !.pc = "ready"])

\* timing.next_time(c, end) on both copies
AskBoth ==
    /\ pc \in {"fresh", "ready"}
    /\ Len(tlog) < MaxCalls
    /\ \E c \in 0..end :
         LET r1 == InnerNextTime(builders[1].timing, tstate[1], c, end)
             r2 == InnerNextTime(builders[2].timing, tstate[2], c, end)
         IN  Becomes([Cur EXCEPT !.tstate = <<r1.ts, r2.ts>>,
                                 !.tlog = Append(@, [call |-> "next_time", cur |-> c,
                                                     res |-> <<r1.res>>,
                                                     res2 |-> <<r2.res>>])])

\* value_gen.get_value(time, sim) on both copies, at one instant after the other
GetBoth ==
    /\ pc \in {"fresh", "ready"}
    /\ Len(tlog) < MaxCalls
    /\ LET time == Len(tlog)
           g1 == GetValue(builders[1].value_gen, vstate[1], time, state)
           g2 == GetValue(builders[2].value_gen, vstate[2], time, state)
       IN  Becomes([Cur EXCEPT !.vstate = <<g1.vs, g2.vs>>,
                               !.tlog = Append(@, [call |-> "get_value", cur |-> time,
                                                   res |-> <<g1.value, g1.meta>>,
                                                   res2 |-> <<g2.value, g2.meta>>])])

\* the Timings reset: every class; a RandomTiming takes n of the values of
\* its stream at each reset()
ResetTimings ==
    {c \in PlainTimings : c.kind # "Random"}
    \cup {[c EXCEPT !.n = k] : k \in 0..1,
             c \in {d \in PlainTimings : d.kind = "Random" /\ d.rstart = 0 /\ Len(d.draw) = MaxDraws}}

\* the ValueGenerators reset: every class
ResetValueGens ==
    {ValueGenFields("Fixed", RInt(-2), "r", <<RInt(0)>>, RInt(0), RInt(0), 0, "r"),
     GrowingFields(RInt(4), RInt(2)),
     ValueGenFields("Distribution", RInt(0), "r", <<RInt(1), RInt(2)>>, RInt(0), RInt(0), 0, "r"),
     ValueGenFields("RateChange", RInt(0), "r", <<RInt(1), RInt(2)>>, RInt(0), RInt(0), 0, "r"),
     ValueGenFields("VariableRateLoan", RInt(0), "r", <<RInt(0)>>, RInt(100), RInt(0), 2, "r")}

ResetInitial ==
    /\ start = 0
    /\ end = MaxT
    /\ \E t \in ResetTimings, v \in ResetValueGens :
         builders = [b \in 1..2 |-> [timing |-> t, value_gen |-> v, metadata |-> EmptyMap]]
    /\ procs = <<>>
    /\ state = EmptyMap
    /\ tstate = <<TimingInit, TimingInit>>
    /\ bnext = <<None, None>>
    /\ vstate = [b \in 1..2 |-> ValueGenInit(builders[b].value_gen)]
    /\ state_history = <<>>
    /\ events = <<>>
    /\ pc = "fresh"
    /\ current = None /\ next_times = <<>> /\ next_time = None
    /\ events_at_time = <<>> /\ i = 1 /\ rs = "query" /\ ncur = None /\ nt = None
    /\ gtime = None /\ targ = None /\ tret = "direct" /\ snt = None
    /\ advLog = <<>> /\ treset = FALSE /\ tlog = <<>>
    /\ name = <<"Sim", 0>> /\ params = EmptyMap /\ NoIo

ResetNext ==
    \/ ResetBoth
    \/ AskBoth
    \/ GetBoth

ResetSpec == ResetInitial /\ [][ResetNext]_vars

\* ------------------------------ an IntervalTiming whose interval is zero
\* IntervalTiming.next_time step by step, lines 41-42: the first candidate
IntervalEnter ==
    /\ pc = "next_time"
    /\ builders[i].timing.kind = "Interval"
    /\ LET c == builders[i].timing
           first == IF tstate[i].current_next = None
                    THEN (IF c.start_time = None THEN targ + c.interval ELSE c.start_time)
                    ELSE tstate[i].current_next
       IN  Becomes([Cur EXCEPT !.tstate[i].current_next = first, !.pc = "interval_loop"])

\* lines 43-44, one turn of `while self.current_next < current`; then lines 45-47
IntervalLoop ==
    /\ pc = "interval_loop"
    /\ LET c == builders[i].timing
           cn == tstate[i].current_next
       IN  Becomes(IF cn < targ
                   THEN [Cur EXCEPT !.tstate[i].current_next = cn + c.interval]
                   ELSE TimingReturn(Cur, IF cn > end THEN None ELSE cn))

\* IntervalTiming(timedelta(0), start_time), and create_timing with
\* interval_days = 0: the constructor takes any interval
ZeroInitial ==
    /\ start = 0
    /\ end \in 0..MaxT
    /\ \E st \in {None} \cup 0..MaxT :
         builders = <<[timing |-> TimingFields("Interval", FALSE, {}, 0, 0, st, 0, 0, <<>>),
                       value_gen |-> ValueGenFields("Fixed", RInt(-2), "r", <<RInt(0)>>,
                                                    RInt(0), RInt(0), 0, "r"),
                       metadata |-> EmptyMap]>>
    /\ procs = <<>>
    /\ state = EmptyMap
    /\ tstate = <<TimingInit>>
    /\ bnext = <<None>>
    /\ vstate = <<ValueGenInit(builders[1].value_gen)>>
    /\ state_history = <<>>
    /\ events = <<>>
    /\ pc = "idle"
    /\ current = None /\ next_times = <<>> /\ next_time = None
    /\ events_at_time = <<>> /\ i = 1 /\ rs = "query" /\ ncur = None /\ nt = None
    /\ gtime = None /\ targ = None /\ tret = "direct" /\ snt = None
    /\ advLog = <<>> /\ treset = FALSE /\ tlog = <<>>
    /\ name = <<"Sim", 0>> /\ params = EmptyMap /\ NoIo

ZeroNext ==
    \/ DirectReset
    \/ DirectNextTime
    \/ IntervalEnter
    \/ IntervalLoop

\* next_time is sequential code: a call in progress takes its next step
FairZeroSpec ==
    ZeroInitial /\ [][ZeroNext]_vars /\ WF_vars(IntervalEnter \/ IntervalLoop)

\* ------------------------------------------- a RandomTiming used on its own
\* the call timing.next_time(c, end) of a RandomTiming, for any instant c; the
\* log keeps the Timing's fields before and after the call
RandomCall ==
    /\ pc = "idle"
    /\ Len(tlog) < MaxCalls
    /\ \E c \in 0..MaxT :
         LET r == RandomNextTime(builders[1].timing, tstate[1], c, end)
         IN  Becomes([Cur EXCEPT !.tstate[1] = r.ts,
                                 !.tlog = Append(@, [cur |-> c, res |-> r.res,
                                                     before |-> tstate[1],
                                                     after |-> r.ts])])

\* RandomTiming(start, end, n, distribution), and create_timing with type
\* 'Random': any distribution name is taken
RandomTimings ==
    {[c EXCEPT !.n = k, !.distribution = d] :
        k \in 0..MaxDraws, d \in {"uniform", "normal"},
        c \in {t \in PlainTimings : t.kind = "Random" /\ t.rstart \in 0..1
                                       /\ Len(t.draw) = MaxDraws}}

RandomInitial ==
    /\ start = 0
    /\ end \in 0..MaxT
    /\ \E t \in RandomTimings :
         builders = <<[timing |-> t,
                       value_gen |-> ValueGenFields("Fixed", RInt(-2), "r", <<RInt(0)>>,
                                                    RInt(0), RInt(0), 0, "r"),
                       metadata |-> EmptyMap]>>
    /\ procs = <<>>
    /\ state = EmptyMap
    /\ tstate = <<TimingInit>>
    /\ bnext = <<None>>
    /\ vstate = <<ValueGenInit(builders[1].value_gen)>>
    /\ state_history = <<>>
    /\ events = <<>>
    /\ pc = "idle"
    /\ current = None /\ next_times = <<>> /\ next_time = None
    /\ events_at_time = <<>> /\ i = 1 /\ rs = "query" /\ ncur = None /\ nt = None
    /\ gtime = None /\ targ = None /\ tret = "direct" /\ snt = None
    /\ advLog = <<>> /\ treset = FALSE /\ tlog = <<>>
    /\ name = <<"Sim", 0>> /\ params = EmptyMap /\ NoIo

RandomNext ==
    \/ DirectReset
    \/ RandomCall

RandomSpec == RandomInitial /\ [][RandomNext]_vars

\* --------------------------------- a ComposedEventBuilder used on its own
\* the log of the direct calls on the builder keeps the last two: of the
\* call before, its method, argument and result; and the entry opened by the
\* call of `call` with argument c
Open(call, c) ==
    (IF tlog = <<>> THEN <<>>
     ELSE <<[call |-> tlog[Len(tlog)].call, cur |-> tlog[Len(tlog)].cur,
             res |-> tlog[Len(tlog)].res]>>)
    \o <<[call |-> call, cur |-> c, done |-> FALSE, res |-> None, event |-> <<>>,
          asked |-> FALSE, before |-> Snapshot(Cur), after |-> Snapshot(Cur)]>>

\* builder.reset(), lines 61-64
BuilderReset ==
    /\ pc = "builder"
    /\ Becomes([Cur EXCEPT !.tstate[1] = TimingReset(builders[1].timing, tstate[1]),
                           !.vstate[1] = ValueGenReset(builders[1].value_gen, vstate[1]),
                           !.bnext[1] = None,
                           !.treset = TRUE, !.tlog = <<>>])

\* the call builder.next_event_time(c, sim), for any instant c
BuilderNextEventTime ==
    /\ pc = "builder"
    /\ \E c \in 0..MaxT :
         Becomes(CallNextEventTime(
                   [Cur EXCEPT !.targ = None, !.tlog = Open("next_event_time", c)],
                   1, c, "direct"))

\* the call builder.generate_event(c, sim), for any instant c: line 75
BuilderGenerateEvent ==
    /\ pc = "builder"
    /\ \E c \in 0..MaxT :
         Becomes(CallNextEventTime(
                   [Cur EXCEPT !.targ = None, !.gtime = c,
                               !.tlog = Open("generate_event", c)],
                   1, c, "direct_generate"))

\* the call builder.value_gen.get_value(c, sim), for any instant c
BuilderGetValue ==
    /\ pc = "builder"
    /\ Len(vstate[1].calls) < MaxGets
    /\ \E c \in 0..MaxT :
         Becomes([Cur EXCEPT !.vstate[1] =
                     GetValue(builders[1].value_gen, vstate[1], c, state).vs])

\* the builder's static metadata: one key of its own, one that the
\* VariableRateLoan's metadata has too
StaticMetadata ==
    [k \in {"category", "rate"} |-> RInt(7)]

\* ComposedEventBuilder(timing, value_gen, metadata), its ValueGenerator any
\* of `gens`, of a Simulation whose state is any of `states` and whose end
\* is any of `ends`
BuilderObjects(gens, states, ends) ==
    /\ start = 0
    /\ end \in ends
    /\ \E t \in RunTimings, v \in gens :
         builders = <<[timing |-> t, value_gen |-> v, metadata |-> StaticMetadata]>>
    /\ procs = <<>>
    /\ state \in states
    /\ tstate = <<TimingInit>>
    /\ bnext = <<None>>
    /\ vstate = <<ValueGenInit(builders[1].value_gen)>>
    /\ state_history = <<>>
    /\ events = <<>>
    /\ pc = "builder"
    /\ current = None /\ next_times = <<>> /\ next_time = None
    /\ events_at_time = <<>> /\ i = 1 /\ rs = "direct" /\ ncur = None /\ nt = None
    /\ gtime = None /\ targ = None /\ tret = "builder" /\ snt = None
    /\ advLog = <<>> /\ treset = FALSE /\ tlog = <<>>
    /\ name = <<"Sim", 0>> /\ params = EmptyMap /\ NoIo

\* the builder's candidate queried and its events asked for
BuilderInitial ==
    BuilderObjects({w \in ResetValueGens : w.kind = "Fixed"}, {EmptyMap},
                   (MaxT - 1)..MaxT)

BuilderNext ==
    \/ BuilderReset
    \/ BuilderNextEventTime
    \/ BuilderGenerateEvent
    \/ NextEventTime
    \/ TimingNextTime
    \/ SeasonalTest
    \/ SeasonalNext
    \/ LoopTest

BuilderSpec == BuilderInitial /\ [][BuilderNext]_vars

\* the builder's events asked for between calls of its generator: a fixed
\* value, a growing value, a loan whose rate sim.state holds
GeneratorInitial ==
    BuilderObjects({w \in ResetValueGens : w.kind \in {"Fixed", "Growing", "VariableRateLoan"}},
                   {[k \in {"r"} |-> RInt(6)]}, {MaxT})

GeneratorNext ==
    \/ BuilderReset
    \/ BuilderGenerateEvent
    \/ BuilderGetValue
    \/ NextEventTime
    \/ TimingNextTime
    \/ SeasonalTest
    \/ SeasonalNext
    \/ LoopTest

GeneratorSpec == GeneratorInitial /\ [][GeneratorNext]_vars

\* ------------------------------------ an AppreciationProcess used on its own
\* the call proc.advance(state, delta) of one of the processes, for any
\* delta of whole days
DirectAdvance ==
    /\ pc = "advance"
    /\ Len(tlog) < MaxCalls
    /\ \E p \in DOMAIN procs, delta \in 0..MaxT :
         LET st == Advance(procs[p], state, delta)
         IN  Becomes([Cur EXCEPT !.state = st,
                                 !.tlog = Append(@, [proc |-> p, delta |-> delta,
                                                     before |-> state, after |-> st])])

\* the states a process is applied to: any of its keys may be missing
AdvanceStates ==
    {[k \in ks |-> IF k = "property_value" THEN RInt(8) ELSE RInt(3)] :
        ks \in SUBSET {"property_value", "land_value", "r"}}

\* AppreciationProcess(rate, var): growth factors over one day of 1 (rate 0),
\* 2 and 1/2
AdvanceInitial ==
    /\ start = 0
    /\ end = MaxT
    /\ builders = <<>>
    /\ procs \in {<<ProcessFields(g, "property_value"), ProcessFields(h, "land_value")>> :
                     g \in {RInt(1), RInt(2)}, h \in {RInt(2), Rat(1, 2)}}
    /\ state \in AdvanceStates
    /\ tstate = <<>> /\ bnext = <<>> /\ vstate = <<>>
    /\ state_history = <<>>
    /\ events = <<>>
    /\ pc = "advance"
    /\ current = None /\ next_times = <<>> /\ next_time = None
    /\ events_at_time = <<>> /\ i = 0 /\ rs = "query" /\ ncur = None /\ nt = None
    /\ gtime = None /\ targ = None /\ tret = "direct" /\ snt = None
    /\ advLog = <<>> /\ treset = FALSE /\ tlog = <<>>
    /\ name = <<"Sim", 0>> /\ params = EmptyMap /\ NoIo

AdvanceNext ==
    DirectAdvance

AdvanceSpec == AdvanceInitial /\ [][AdvanceNext]_vars

\* ------------------------------------------------------------------ claims
\* C1: Simulation.run() terminates: after finitely many steps the loop finds
\* no builder with a candidate <= end and exits (every Simulation built here
\* has start <= end and Timings with a non-zero interval).
C1_RunTerminates == <>(pc = "done")

C3_GenerateEventReturnsEvent ==
    \A b \in 1..MaxBuilders : \A t \in 0..MaxT :
      (pc = "next_event_time" /\ rs = "generate_event" /\ i = b /\ gtime = t /\ bnext[b] = t)
        ~> (\E k \in DOMAIN events_at_time :
              events_at_time[k].builder = b /\ events_at_time[k].time = t)

\* the events of builder b at instant t in the event list q
EventsOf(q, b, t) == {k \in DOMAIN q : q[k].builder = b /\ q[k].time = t}

C5_RegistrationOrder ==
    \A t \in 0..MaxT :
      (NB = 2 /\ pc = "next_event_time" /\ rs = "gen" /\ bnext[1] = t /\ bnext[2] = t /\ t <= end)
        ~> (\E j, k \in DOMAIN events :
              /\ j < k
              /\ events[j].builder = 1 /\ events[j].time = t
              /\ events[k].builder = 2 /\ events[k].time = t)

\* the advances of process p made so far, and the days they add up to
AdvancesOf(p) == SelectSeq(advLog, LAMBDA a : a.proc = p)

RECURSIVE DaysOf(_)
DaysOf(log) == IF log = <<>> THEN 0 ELSE Head(log).delta + DaysOf(Tail(log))

\* C6: in every tick each process is advanced exactly once, by
\* next_time - current, before any generate_event call of the tick; at every
\* snapshot the time applied to each process is current - start.
C6_AdvanceOncePerTick ==
    pc \notin {"start", "idle"} =>
      \A p \in 1..Len(procs) :
        LET log == AdvancesOf(p)
            days == DaysOf(log)
            var == procs[p].var
        IN  /\ IF rs \in {"gen", "generate_event"}
               THEN /\ Cardinality({k \in DOMAIN log : log[k].tick = next_time}) = 1
                    /\ log[Len(log)].tick = next_time
                    /\ log[Len(log)].delta = next_time - current
                    /\ days = next_time - start
               ELSE /\ days = current - start
                    /\ state_history[Len(state_history)].time = current
            /\ var \in DOMAIN state =>
                 state[var] = RMul(state_history[1].state[var], RPow(procs[p].growth, days))

\* a generate_event call is executing in a tick that lies after start, with
\* two processes registered and advanced
C6_Witness ==
    /\ rs = "generate_event"
    /\ Len(procs) = 2 /\ Len(advLog) = 2
    /\ start > 0 /\ next_time > current
    /\ state["property_value"] # state_history[1].state["property_value"]

\* a RateChange builder, its update_key and the rate it samples first
IsRateChange(b) == b <= NB /\ builders[b].value_gen.kind = "RateChange"

ExpectedRate(n) ==
    LET c == builders[events[n].builder].value_gen
        writes == {k \in 1..(n - 1) :
                     /\ "update_state" \in DOMAIN events[k].metadata
                     /\ c.rate_key \in DOMAIN events[k].metadata["update_state"]}
    IN  IF writes # {}
        THEN events[CHOOSE k \in writes : \A m \in writes : m <= k]
               .metadata["update_state"][c.rate_key]
        ELSE IF c.rate_key \in DOMAIN state_history[1].state
             THEN state_history[1].state[c.rate_key]
             ELSE c.initial_rate

C9_ReturnsStrictlyIncrease ==
    treset =>
      \A j, k \in DOMAIN tlog :
        (j < k /\ tlog[j].res # None /\ tlog[k].res # None) => tlog[j].res < tlog[k].res

\* C10: an instant t returned by next_time(current, end) satisfies
\* current <= t <= end, and once a call has returned none every later call
\* with a non-decreasing current (same end) returns none.
C10_InRangeAndExhausted ==
    /\ \A k \in DOMAIN tlog :
         tlog[k].res # None => (tlog[k].cur <= tlog[k].res /\ tlog[k].res <= end)
    /\ \A j, k \in DOMAIN tlog :
         (/\ j < k
          /\ tlog[j].res = None
          /\ \A m \in j..(k - 1) : tlog[m].cur <= tlog[m + 1].cur)
         => tlog[k].res = None

\* a Timing has returned an instant and then none on two later calls with
\* non-decreasing current
C10_Witness ==
    /\ Len(tlog) = 3
    /\ tlog[1].res # None /\ tlog[2].res = None /\ tlog[3].res = None
    /\ tlog[1].cur <= tlog[2].cur /\ tlog[2].cur <= tlog[3].cur

\* C11: a OneTime Timing configured at t0 returns t0 exactly once over the
\* queries made at times >= t0 after a reset(): once a query has returned
\* t0, every later query returns none.
C11_OneTimeFiresOnce ==
    LET c == builders[1].timing
    IN  (treset /\ c.kind = "OneTime" /\ ~c.seasonal) =>
          \A j, k \in DOMAIN tlog :
            (j < k /\ tlog[j].cur >= c.time /\ tlog[k].cur >= c.time
               /\ tlog[j].res = c.time) => tlog[k].res = None

\* C12: an Interval Timing with interval I > 0 and no start_time, queried
\* after each return at the instant it returned: two consecutive returned
\* instants differ by exactly I (so no two are equal).
C12_IntervalStep ==
    LET c == builders[1].timing
    IN  (treset /\ c.kind = "Interval" /\ ~c.seasonal /\ c.start_time = None) =>
          \A k \in 2..Len(tlog) :
            (tlog[k - 1].res # None /\ tlog[k].res # None
               /\ tlog[k].cur = tlog[k - 1].res)
              => tlog[k].res - tlog[k - 1].res = c.interval

\* builder b runs on an IntervalTiming that has no start_time
IsFreeInterval(b) ==
    /\ b <= NB
    /\ builders[b].timing.kind = "Interval" /\ ~builders[b].timing.seasonal
    /\ builders[b].timing.start_time = None

SeasonalInitial ==
    /\ TimingInitial
    /\ end = MaxT
    /\ builders[1].timing.seasonal
    /\ \/ builders[1].timing.kind = "OneTime"
       \/ builders[1].timing.kind = "Interval" /\ builders[1].timing.start_time = None

\* next_time is sequential code: a call in progress takes its next step
FairTimingSpec ==
    SeasonalInitial /\ [][TimingNext]_vars
      /\ WF_vars(TimingNextTime \/ SeasonalTest \/ SeasonalNext)

\* C14: SeasonalTiming.next_time(current, end) always returns, and what it
\* returns is none or an instant at or after current whose calendar month is
\* in the allowed set.
C14_SeasonalReturns ==
    /\ [](\A k \in DOMAIN tlog :
            tlog[k].res # None =>
              /\ MonthOf(tlog[k].res) \in builders[1].timing.months
              /\ tlog[k].cur <= tlog[k].res)
    /\ (pc = "next_time" /\ tret = "direct") ~> (pc = "idle")

\* the events builder b has emitted so far, those of the current tick included
EmittedBy(b) == SelectSeq(events \o events_at_time, LAMBDA e : e.builder = b)

C16_BalanceNeverIncreases ==
    treset =>
      \A k \in DOMAIN tlog :
        /\ RLe(tlog[k].res.vs.balance, tlog[k].before.balance)
        /\ RLe(RInt(0), tlog[k].res.vs.balance)
        /\ "remaining_balance" \in DOMAIN tlog[k].res.meta =>
             tlog[k].res.meta["remaining_balance"] = tlog[k].res.vs.balance

\* the 'principal' metadata values of the logged get_value calls
RECURSIVE PrincipalPaid(_)
PrincipalPaid(log) ==
    IF log = <<>> THEN RInt(0)
    ELSE RAdd(IF "principal" \in DOMAIN Head(log).res.meta
              THEN Head(log).res.meta["principal"] ELSE RInt(0),
              PrincipalPaid(Tail(log)))

\* the rate key was absent from sim.state at every logged call
RateNeverSet == \A k \in DOMAIN tlog : builders[1].value_gen.rate_key \notin DOMAIN tlog[k].st

\* C17: a VariableRateLoan with term_months = n >= 1 whose rate key is absent
\* on every call: after exactly n get_value calls the balance is 0 and the
\* 'principal' values of those n calls add up to the configured principal.
C17_PaidOffAfterTerm ==
    LET c == builders[1].value_gen
    IN  (treset /\ c.term_months >= 1 /\ Len(tlog) = c.term_months /\ RateNeverSet) =>
          /\ vstate[1].balance = RInt(0)
          /\ PrincipalPaid(tlog) = c.principal

\* a loan of 100 at a rate that is not 0, paid off by MaxTerm amortizing calls
C17_Witness ==
    LET c == builders[1].value_gen
    IN  /\ treset /\ RateNeverSet
        /\ c.term_months = MaxTerm /\ Len(tlog) = MaxTerm
        /\ c.principal = RInt(100) /\ c.initial_rate # RInt(0)
        /\ vstate[1].balance = RInt(0)
        /\ \A k \in DOMAIN tlog :
             /\ "principal" \in DOMAIN tlog[k].res.meta
             /\ RLt(RInt(0), tlog[k].res.meta["principal"])
             /\ RLt(tlog[k].res.meta["principal"], RInt(100))

\* the loan was retired or exhausted before its k-th logged call
Retired(k) ==
    \/ k - 1 >= builders[1].value_gen.term_months
    \/ tlog[k].before.month >= builders[1].value_gen.term_months
    \/ RLe(tlog[k].before.balance, RInt(0))

\* C18: once a VariableRateLoan has been called term_months times or its
\* balance is <= 0, every further get_value call returns magnitude 0 with
\* empty metadata and leaves the balance and the elapsed-month counter
\* unchanged, however often it is repeated.
C18_RetiredLoanIsNoOp ==
    treset =>
      \A k \in DOMAIN tlog :
        Retired(k) =>
          /\ tlog[k].res.value = RInt(0)
          /\ tlog[k].res.meta = EmptyMap
          /\ tlog[k].res.vs.balance = tlog[k].before.balance
          /\ tlog[k].res.vs.month = tlog[k].before.month
          /\ tlog[k].res.vs.last_time = tlog[k].before.last_time

\* a loan of 100 amortized over its whole term and then called twice more
C18_Witness ==
    LET c == builders[1].value_gen
        n == Len(tlog)
    IN  /\ treset /\ c.principal = RInt(100) /\ c.term_months >= 2
        /\ n = c.term_months + 2
        /\ tlog[n - 1].before.month = c.term_months
        /\ tlog[n - 2].res.meta # EmptyMap
        /\ tlog[n - 1].res.meta = EmptyMap /\ tlog[n].res.meta = EmptyMap

\* the sum of the values of the events of the list with time <= t
CashUpTo(t) ==
    LET upto == SelectSeq(events, LAMBDA e : e.time <= t)
    IN  RSum([k \in DOMAIN upto |-> upto[k].value])

\* the snapshot state_history[k] accounts for the cash of the events up to it
SnapshotAccounts(k) ==
    LET snap == state_history[k].state
        initial == state_history[1].state
    IN  IF "cumulative_cash" \in DOMAIN initial
        THEN /\ "cumulative_cash" \in DOMAIN snap
             /\ snap["cumulative_cash"]
                  = RAdd(initial["cumulative_cash"], CashUpTo(state_history[k].time))
        ELSE "cumulative_cash" \notin DOMAIN snap /\ "cumulative_cash" \notin DOMAIN state

C21_TrialIndexOrder ==
    \A b \in DOMAIN pool.built :
      pool.built[b].ended = "returned" =>
        /\ Len(pool.built[b].sims) = pool.num
        /\ \A k \in 1..pool.num :
             /\ pool.built[b].sims[k].trial = k - 1
             /\ pool.built[b].sims[k].name = <<"Sim", k - 1>>

\* build_simulations has returned the Simulations of an ensemble whose
\* second trial finished before its first
C21_Witness ==
    \E b \in DOMAIN pool.built :
      /\ pool.built[b].ended = "returned"
      /\ pool.num >= 2
      /\ pool.built[b].finished[1] = 1
      /\ pool.built[b].sims[1].trial = 0

\* C22: two calls of build_simulations with the same seed, the same num and
\* the same configuration return identical per-trial results (same name,
\* same sampled params, same times drawn in run()), however the trials were
\* assigned to the workers and whatever random source the workers started from.
C22_SameSeedSameResults ==
    pool.seed # None =>
      \A a, b \in DOMAIN pool.built :
        (pool.built[a].ended = "returned" /\ pool.built[b].ended = "returned")
          => pool.built[a].sims = pool.built[b].sims

\* two calls with a seed have returned two trials each, the trials having
\* been run by different workers in the two calls
C22_Witness ==
    /\ pool.seed # None /\ pool.num = 2
    /\ Len(pool.built) = 2
    /\ pool.built[1].ended = "returned" /\ pool.built[2].ended = "returned"
    /\ pool.built[1].assigned # pool.built[2].assigned
    /\ pool.built[1].sims[1].params # pool.built[1].sims[2].params

\* C23: if the factory or run() of one trial raises an error, build_simulations
\* still returns an outcome for every trial: no call of it ends by raising,
\* every call that ends returns num outcomes.
C23_FailureIsolated ==
    /\ pool.phase # "failing"
    /\ \A b \in DOMAIN pool.built :
         pool.built[b].ended = "returned" /\ Len(pool.built[b].sims) = pool.num

\* C24: for every completed Simulation x, Simulation.from_dict(x.to_dict())
\* is made without an error and has the same name, start, end, params, event
\* list, state and state_history as x.
C24_RoundTrip ==
    parsed.made => (~parsed.error /\ parsed.sim = ThisSimulation)

\* C25: for every Timing and every ValueGenerator, after reset() called
\* twice every next_time / get_value call returns what it returns after
\* reset() called once, the random source being in the same state before the
\* first reset.
C25_ResetIdempotent ==
    treset => \A k \in DOMAIN tlog : tlog[k].res = tlog[k].res2

\* C26: an Interval Timing with an interval of zero duration is rejected: it
\* never yields a candidate instant, and no next_time call on it loops for
\* ever.
C26_ZeroIntervalRejected ==
    /\ [](\A k \in DOMAIN tlog : tlog[k].res = None)
    /\ (pc = "next_time") ~> (pc = "idle")

\* the read index next_time(cur, end) must stop at, starting from index ix
\* of the instants ts: the first one whose instant is not < cur
RECURSIVE ReadIndex(_, _, _)
ReadIndex(ts, ix, cur) ==
    IF ix < Len(ts) /\ ts[ix + 1] < cur THEN ReadIndex(ts, ix + 1, cur) ELSE ix

\* C27: after reset(), RandomTiming holds n instants sorted ascending, each
\* within [start, end] of the Timing; next_time(current, end) moves the read
\* index forward past every instant < current, never backward, and returns
\* the instant at the index if it is <= end, else none.
C27_RandomInstants ==
    treset =>
      LET c == builders[1].timing
          times == tstate[1].times
      IN  /\ Len(times) = c.n
          /\ \A j, k \in DOMAIN times : j < k => times[j] <= times[k]
          /\ \A k \in DOMAIN times : c.rstart <= times[k] /\ times[k] <= c.rend
          /\ \A k \in DOMAIN tlog :
               LET ix == tlog[k].after.index
               IN  /\ ix >= tlog[k].before.index
                   /\ ix = ReadIndex(times, tlog[k].before.index, tlog[k].cur)
                   /\ tlog[k].res = IF ix < Len(times) /\ times[ix + 1] <= end
                                    THEN times[ix + 1] ELSE None

\* the last call of next_event_time on the builder, returned, comes right
\* after a call of next_event_time with the same current
Repeated ==
    /\ Len(tlog) = 2
    /\ tlog[2].call = "next_event_time" /\ tlog[2].done
    /\ tlog[1].call = "next_event_time" /\ tlog[1].cur = tlog[2].cur

\* C28: two consecutive calls of next_event_time with the same current and no
\* generate_event in between return the same candidate, and the second call
\* does not advance the Timing's cursor; the cached candidate is recomputed
\* (the Timing asked) only when it is none or <= current.
C28_NextEventTimeIdempotent ==
    /\ Repeated => /\ tlog[2].res = tlog[1].res
                   /\ tlog[2].after.ts = tlog[2].before.ts
    /\ \A k \in DOMAIN tlog :
         (k = Len(tlog) /\ tlog[k].call = "next_event_time" /\ tlog[k].done) =>
           /\ tlog[k].asked <=> (tlog[k].before.bnext = None
                                 \/ tlog[k].before.bnext <= tlog[k].cur)
           /\ ~tlog[k].asked => /\ tlog[k].after.bnext = tlog[k].before.bnext
                                /\ tlog[k].res = tlog[k].before.bnext

\* a second call with the same current answered from the cache
C28_Witness ==
    /\ Repeated
    /\ tlog[2].res # None /\ ~tlog[2].asked
    /\ tstate[1].current_next # None

\* the last call on the builder is a generate_event that returned None
ReturnedNone ==
    /\ tlog # <<>>
    /\ tlog[Len(tlog)].call = "generate_event"
    /\ tlog[Len(tlog)].done
    /\ tlog[Len(tlog)].event = <<>>

\* C30: when generate_event(time, sim) returns none, the ValueGenerator has
\* not been invoked: its fields (loan balance and month counter, growing
\* value and last time) and sim.state are exactly as before the call.
C30_NoneLeavesGenerator ==
    ReturnedNone =>
      /\ tlog[Len(tlog)].after.vs = tlog[Len(tlog)].before.vs
      /\ tlog[Len(tlog)].after.state = tlog[Len(tlog)].before.state

\* generate_event returned None on a loan that has already paid a month
C30_Witness ==
    /\ ReturnedNone
    /\ builders[1].value_gen.kind = "VariableRateLoan"
    /\ tlog[Len(tlog)].before.vs.month = 1
    /\ tlog[Len(tlog)].before.vs.balance # builders[1].value_gen.principal
    /\ tlog[Len(tlog)].asked

\* the builder of a loan whose metadata has the key 'rate' too
MergeInitial ==
    BuilderObjects({w \in ResetValueGens : w.kind = "VariableRateLoan"},
                   {[k \in {"r"} |-> RInt(6)]}, (MaxT - 1)..MaxT)

\* a call on the builder is sequential code: it takes its next step whenever
\* it has one
FairMergeSpec ==
    MergeInitial /\ [][GeneratorNext]_vars
      /\ WF_vars(NextEventTime \/ TimingNextTime \/ SeasonalTest \/ SeasonalNext \/ LoopTest)

\* the last call on the builder is a generate_event that returned an Event
ReturnedEvent ==
    /\ pc = "builder"
    /\ tlog # <<>>
    /\ tlog[Len(tlog)].call = "generate_event"
    /\ tlog[Len(tlog)].done
    /\ tlog[Len(tlog)].event # <<>>

KeptIn(h, g) ==
    /\ Len(h) <= Len(g)
    /\ \A k \in DOMAIN h : g[k] = h[k]

C32_AdvanceFrame ==
    \A n \in DOMAIN tlog :
      LET e == tlog[n]
          var == procs[e.proc].var
      IN  /\ DOMAIN e.after = DOMAIN e.before
          /\ \A k \in DOMAIN e.before : k # var => e.after[k] = e.before[k]
          /\ var \notin DOMAIN e.before => e.after = e.before

\* advance() was applied to a state without its key, and to a state with its
\* key and others, changing the value under the key
C32_Witness ==
    /\ \E n \in DOMAIN tlog :
         /\ procs[tlog[n].proc].var \notin DOMAIN tlog[n].before
         /\ tlog[n].before # EmptyMap /\ tlog[n].delta > 0
    /\ \E n \in DOMAIN tlog :
         /\ procs[tlog[n].proc].var \in DOMAIN tlog[n].before
         /\ tlog[n].after # tlog[n].before
         /\ DOMAIN tlog[n].before # {procs[tlog[n].proc].var}

\* the Timing is an IntervalTiming with an explicit start_time
IsAnchoredInterval ==
    /\ builders[1].timing.kind = "Interval" /\ ~builders[1].timing.seasonal
    /\ builders[1].timing.start_time # None

\* C33: an Interval Timing with explicit start_time s and interval I > 0
\* returns only instants s + k*I (k >= 0); queried with current later than s
\* it advances its cursor past every such instant that is <= current, so the
\* instant it returns is after current.
C33_IntervalCatchUp ==
    IsAnchoredInterval =>
      LET c == builders[1].timing
      IN  \A k \in DOMAIN tlog :
            tlog[k].res # None =>
              /\ tlog[k].res >= c.start_time
              /\ (tlog[k].res - c.start_time) % c.interval = 0
              /\ tlog[k].cur > c.start_time => tlog[k].res > tlog[k].cur

\* builder b runs on a OneTimeTiming
IsOneTime(b) ==
    b <= NB /\ builders[b].timing.kind = "OneTime" /\ ~builders[b].timing.seasonal

\* the events of builder b in the event list
EmittedAnyTime(b) == {k \in DOMAIN events : events[k].builder = b}

C35_NegativeTermRaises ==
    (builders[1].value_gen.term_months < 0 /\ tlog # <<>>) =>
      LoanRaises(builders[1].value_gen, tlog[1].before, tlog[1].st)

\* C36: next_event_time(current, sim), whenever it returns, returns none or
\* an instant strictly greater than current and <= sim.end; never current.
C36_CandidateAhead ==
    \A k \in DOMAIN tlog :
      (tlog[k].call = "next_event_time" /\ (k < Len(tlog) \/ tlog[k].done)) =>
        \/ tlog[k].res = None
        \/ tlog[k].cur < tlog[k].res /\ tlog[k].res <= end

\* a call that asked the Timing returned the instant sim.end, and the call
\* before it returned none
C36_Witness ==
    /\ Len(tlog) = 2
    /\ tlog[1].call = "next_event_time" /\ tlog[1].res = None
    /\ tlog[2].call = "next_event_time" /\ tlog[2].done /\ tlog[2].asked
    /\ tlog[2].res = end /\ tlog[2].cur = end - 1

\* the get_value calls since reset() that amortized (did not return 0.0, {})
Amortizing == {k \in DOMAIN tlog : "principal" \in DOMAIN tlog[k].res.meta}

TrialZero(s, r) == BuildOne(pool.factory, s, 0, r)

\* C38: with a seed supplied, the sampled parameters and the result of trial
\* i depend only on seed + i and the configuration: whatever num and the
\* worker schedule, trial i under seed s is, apart from its name and index,
\* trial 0 under seed s + i.
C38_TrialDependsOnSeedPlusIndex ==
    pool.seed # None =>
      \A k \in DOMAIN pool.futures : \A r \in ParentStates :
        /\ pool.futures[k].status = "done" =>
             /\ TrialZero(pool.seed + k - 1, r).outcome = "done"
             /\ pool.futures[k].result.params = TrialZero(pool.seed + k - 1, r).sim.params
             /\ pool.futures[k].result.times = TrialZero(pool.seed + k - 1, r).sim.times
        /\ pool.futures[k].status = "failed" =>
             TrialZero(pool.seed + k - 1, r).outcome = "raise"

\* an ensemble of two seeded trials has been returned, trial 1 finished first
\* on the second worker, and the two trials sampled different parameters
C38_Witness ==
    /\ pool.seed # None /\ pool.num = 2
    /\ \E b \in DOMAIN pool.built :
         /\ pool.built[b].ended = "returned"
         /\ pool.built[b].finished = <<1, 0>>
         /\ pool.built[b].assigned = <<1, 2>>
         /\ pool.built[b].sims[1].params # pool.built[b].sims[2].params
    /\ pool.phase = "map" /\ pool.fetched = 2
    /\ pool.futures[2].status = "done"

\* ------------------------------------------- the job server (simulation_server.py)
\* the job_id a request carries; Missing marks a request.json without the key
ClientIds == {"a"}

Missing == "<missing>"

\* str(uuid.uuid4()) of the n-th request: a new value each time
Uuid == <<"u1", "u2", "u3", "u4">>

\* config['dists'] with real_estate_factory and the run() of what it builds:
\* what becomes of a trial for each sampled parameter
ServerDists == {f \in Factories : f[0] = f[1]}

\* request.json of a POST /simulate
Configs ==
    [job_id : ClientIds \cup {Missing}, num_simulations : 0..1, seed : {0},
     dists : ServerDists]

\* lines 96-97, builder.build_simulations(num_simulations, seed=seed): it
\* returns when every trial returned, raises when the first trial that did
\* not return raised, and never ends while a started trial never returns
BuildEnds(c) ==
    LET e == [k \in 1..c.num_simulations |->
                BuildOne(c.dists, c.seed, k - 1, Seeded(c.seed)).outcome]
    IN  IF \A k \in DOMAIN e : e[k] = "done" THEN {"returned"}
        ELSE {"raised" : k \in {j \in DOMAIN e :
                                  /\ e[j] = "raise"
                                  /\ \A h \in 1..(j - 1) : e[h] = "done"}}
             \cup {"hang" : k \in {j \in DOMAIN e : e[j] = "hang"}}

\* lines 100-101 and 105, SimulationAnalyzer(sims).compute_statistics() and
\* sim.to_dict(): they return, or raise an Exception
AnalysisEnds == {"returned", "raised"}

\* lines 92-107, the body of the try block up to `results`
TryEnds(c) ==
    IF "returned" \in BuildEnds(c) THEN AnalysisEnds ELSE BuildEnds(c)

\* jobs[id] = job
Put(js, id, job) ==
    [k \in DOMAIN js \cup {id} |-> IF k = id THEN job ELSE js[k]]

ServerStill ==
    UNCHANGED <<cfg, tstate, bnext, vstate, state, state_history, events, pc,
                current, next_times, next_time, events_at_time, i, rs, ncur, nt,
                gtime, targ, tret, snt, advLog, treset, tlog, wire, parsed, pool>>

\* simulate(), lines 118-128: the job is registered as 'running' under the
\* job_id of the request or a new uuid, and the thread is started
Simulate ==
    /\ Len(threads) < MaxPosts
    /\ \E config \in Configs :
         LET job_id == IF config.job_id # Missing THEN config.job_id
                       ELSE Uuid[Len(threads) + 1]
         IN  /\ jobs' = Put(jobs, job_id,
                            [status |-> "running", progress |-> 0,
                             message |-> "Starting", results |-> None])
             /\ threads' = Append(threads,
                                  [config |-> config, registered |-> job_id,
                                   pc |-> "l90", results |-> None])
    /\ UNCHANGED reply
    /\ ServerStill

\* the step of thread n from position `at`: the job it writes is
\* jobs[config['job_id']]
Step(n, at, to, job) ==
    /\ threads[n].pc = at
    /\ threads' = [threads EXCEPT ![n].pc = to]
    /\ jobs' = Put(jobs, threads[n].config.job_id, job)
    /\ UNCHANGED reply
    /\ ServerStill

\* run_simulations, line 90: job_id = config['job_id'], before the try; with
\* no such key the KeyError ends the thread
ReadJobId ==
    \E n \in DOMAIN threads :
      /\ threads[n].pc = "l90"
      /\ threads' = [threads EXCEPT ![n].pc =
                       IF threads[n].config.job_id = Missing THEN "ended" ELSE "try"]
      /\ UNCHANGED <<jobs, reply>>
      /\ ServerStill

\* lines 92-107: the try block reaches line 109 with the results, or an
\* Exception takes it to line 114 (a build that never ends takes no step)
Try ==
    \E n \in DOMAIN threads : \E o \in TryEnds(threads[n].config) :
      /\ threads[n].pc = "try"
      /\ o # "hang"
      /\ threads' = [threads EXCEPT
                       ![n] = IF o = "returned"
                              THEN [@ EXCEPT !.pc = "l109",
                                             !.results = threads[n].config.num_simulations]
                              ELSE [@ EXCEPT !.pc = "l114"]]
      /\ UNCHANGED <<jobs, reply>>
      /\ ServerStill

\* line 109: jobs[job_id]['status'] = 'completed'
SetCompleted ==
    \E n \in DOMAIN threads :
      Step(n, "l109", "l110",
           [jobs[threads[n].config.job_id] EXCEPT !.status = "completed"])

\* line 110: jobs[job_id]['progress'] = 100
SetProgress ==
    \E n \in DOMAIN threads :
      Step(n, "l110", "l111",
           [jobs[threads[n].config.job_id] EXCEPT !.progress = 100])

\* line 111: jobs[job_id]['message'] = 'Done'
SetDone ==
    \E n \in DOMAIN threads :
      Step(n, "l111", "l112",
           [jobs[threads[n].config.job_id] EXCEPT !.message = "Done"])

\* line 112: jobs[job_id]['results'] = results, and the thread ends
SetResults ==
    \E n \in DOMAIN threads :
      Step(n, "l112", "ended",
           [jobs[threads[n].config.job_id] EXCEPT !.results = threads[n].results])

\* line 114: jobs[job_id]['status'] = 'failed'
SetFailed ==
    \E n \in DOMAIN threads :
      Step(n, "l114", "l115",
           [jobs[threads[n].config.job_id] EXCEPT !.status = "failed"])

\* line 115: jobs[job_id]['message'] = str(e), and the thread ends
SetError ==
    \E n \in DOMAIN threads :
      Step(n, "l115", "ended",
           [jobs[threads[n].config.job_id] EXCEPT !.message = "str(e)"])

\* get_results(job_id), lines 135-140: the results with 200 for a job whose
\* status is 'completed', the error with 404 otherwise
GetResults ==
    /\ \E job_id \in ClientIds \cup {Uuid[n] : n \in 1..MaxPosts} :
         LET found == job_id \in DOMAIN jobs
             seen == IF found THEN jobs[job_id].status ELSE "not_found"
         IN  /\ reply' = IF found /\ seen = "completed"
                         THEN [made |-> TRUE, job_id |-> job_id, code |-> 200,
                               body |-> jobs[job_id].results, status |-> seen]
                         ELSE [made |-> TRUE, job_id |-> job_id, code |-> 404,
                               body |-> None, status |-> seen]
             /\ reply' # reply
    /\ UNCHANGED <<jobs, threads>>
    /\ ServerStill

\* the server module imported, no request made yet
ServerInitial ==
    /\ start = 0
    /\ end = MaxT
    /\ builders = <<>>
    /\ procs = <<>>
    /\ state = EmptyMap
    /\ tstate = <<>>
    /\ bnext = <<>>
    /\ vstate = <<>>
    /\ state_history = <<>>
    /\ events = <<>>
    /\ pc = "server"
    /\ current = None /\ next_times = <<>> /\ next_time = None
    /\ events_at_time = <<>> /\ i = 0 /\ rs = "query" /\ ncur = None /\ nt = None
    /\ gtime = None /\ targ = None /\ tret = "direct" /\ snt = None
    /\ advLog = <<>> /\ treset = FALSE /\ tlog = <<>>
    /\ name = <<"Sim", 0>> /\ params = EmptyMap /\ NoIo

ServerNext ==
    \/ Simulate
    \/ ReadJobId
    \/ Try
    \/ SetCompleted
    \/ SetProgress
    \/ SetDone
    \/ SetResults
    \/ SetFailed
    \/ SetError
    \/ GetResults

ServerSpec == ServerInitial /\ [][ServerNext]_vars

\* the thread is the last one started for the job it was registered under
Latest(n) ==
    \A m \in (n + 1)..Len(threads) : threads[m].registered # threads[n].registered

\* C39: a job registered by POST /simulate is 'running' until its thread
\* writes; once the thread has ended the job is 'completed' with results or
\* 'failed' with the error message, never 'running', with or without a
\* job_id in the request; GET /results answers 200 only for a 'completed' job.
C39_JobsSettle ==
    /\ \A n \in DOMAIN threads :
         LET job == jobs[threads[n].registered]
         IN  /\ (\A m \in DOMAIN threads :
                   threads[m].registered = threads[n].registered
                     => threads[m].pc \in {"l90", "try"})
                  => job.status = "running"
             /\ (Latest(n) /\ threads[n].pc = "ended") =>
                  \/ job.status = "completed" /\ job.results # None
                  \/ job.status = "failed" /\ job.message = "str(e)"
    /\ (reply.made /\ reply.code = 200) => reply.status = "completed"

====
